---- MODULE Spec2Model ----
(***************************************************************************)
(* Simbrief Hub (hotbso/simbrief_hub): the asynchronous download           *)
(* coordinator of sbh.cpp, the OFP parser of ofp_get_parse.cpp and the     *)
(* CDM parser / server directory of cdm_get_parse.cpp, as a state machine. *)
(*                                                                         *)
(* One driving thread (X-Plane's main thread) runs every handler of the    *)
(* plugin to completion; each started fetch runs as a std::async task on   *)
(* a thread of its own.  A handler is one action; a background task is a   *)
(* sequence of actions that interleave with the handlers.                  *)
(***************************************************************************)
EXTENDS Integers, Sequences, FiniteSets, TLC

(***************************************************************************)
(* Bounds of the model.                                                    *)
(***************************************************************************)
\* flight loop callbacks in a run of Spec
MaxTicks == 3
\* flight loop callbacks in a run of SpecCdm
MaxCdmTicks == 5
\* roster requests to one server in a run of SpecDir
MaxRosterCalls == 4

(***************************************************************************)
(* Program constants.                                                      *)
(***************************************************************************)
kCdmPollInterval == 90
kCdmNoPoll == 100000
kAirtimeForArrival == 300
kMaxRetries == 3
kSuccess == "Success"

\* std::unique_ptr holding nothing
NULL == [null |-> TRUE]

(***************************************************************************)
(* JSON values as nlohmann::json holds them.                               *)
(***************************************************************************)
JNull == [t |-> "null"]
JNum == [t |-> "num"]
JBool(b) == [t |-> "bool", b |-> b]
JStr(s) == [t |-> "str", v |-> s]
JArr(a) == [t |-> "arr", a |-> a]
JObj(m) == [t |-> "obj", m |-> m]

is_null(j) == j.t = "null"
is_string(j) == j.t = "str"
is_array(j) == j.t = "arr"
is_boolean(j) == j.t = "bool"
is_object(j) == j.t = "obj"

\* json::at(key) returns normally: an object holding the key.  Otherwise it
\* throws type_error (not an object) or out_of_range (no such key).
AtOk(j, key) == is_object(j) /\ key \in DOMAIN j.m
AtOutOfRange(j, key) == is_object(j) /\ key \notin DOMAIN j.m
At(j, key) == j.m[key]

\* non-const json::operator[](key) returns normally: null becomes an object,
\* an object gets the key; every other type throws type_error 305.
IndexOk(j) == is_null(j) \/ is_object(j)
Index(j, key) == IF AtOk(j, key) THEN At(j, key) ELSE JNull

(***************************************************************************)
(* The reply of HttpGet: the transport result and, for the parsers, whether *)
(* the body is well-formed JSON and the value it parses to.                *)
(***************************************************************************)
HttpFail == [ok |-> FALSE, wf |-> FALSE, doc |-> JNull]
HttpGarbage == [ok |-> TRUE, wf |-> FALSE, doc |-> JNull]
HttpJson(doc) == [ok |-> TRUE, wf |-> TRUE, doc |-> doc]

(***************************************************************************)
(* atoi and snprintf("%d") on the decimal strings the plugin converts.     *)
(***************************************************************************)
Digits == <<"0", "1", "2", "3", "4", "5", "6", "7", "8", "9">>

IsDigit(c) == \E d \in 1..10 : Digits[d] = c

DigitVal(c) == (CHOOSE d \in 1..10 : Digits[d] = c) - 1

RECURSIVE AtoiFrom(_, _, _)
AtoiFrom(s, i, acc) ==
    IF i > Len(s) \/ ~IsDigit(SubSeq(s, i, i))
    THEN acc
    ELSE AtoiFrom(s, i + 1, acc * 10 + DigitVal(SubSeq(s, i, i)))

atoi(s) ==
    IF Len(s) > 0 /\ SubSeq(s, 1, 1) = "-" THEN 0 - AtoiFrom(s, 2, 0)
    ELSE AtoiFrom(s, 1, 0)

RECURSIVE UItoa(_)
UItoa(n) == IF n < 10 THEN Digits[n + 1] ELSE UItoa(n \div 10) \o Digits[(n % 10) + 1]

itoa(n) == IF n < 0 THEN "-" \o UItoa(0 - n) ELSE UItoa(n)

\* C++ integer division truncates toward zero
CDiv(a, b) == IF a >= 0 THEN a \div b ELSE 0 - ((0 - a) \div b)

(***************************************************************************)
(* OfpInfo (sbh.h) and OfpGetParse (ofp_get_parse.cpp).                    *)
(***************************************************************************)
OfpStrFields ==
    {"units", "status", "icao_airline", "flight_number", "aircraft_icao",
     "max_passengers", "fuel_plan_ramp", "origin", "origin_rwy", "sid",
     "destination", "alternate", "destination_rwy", "ci", "altitude",
     "tropopause", "isa_dev", "wind_component", "oew", "pax_count", "freight",
     "payload", "route", "alt_route", "time_generated", "est_time_enroute",
     "est_out", "est_off", "est_on", "est_in", "fuel_taxi", "max_zfw",
     "max_tow", "dx_rmk"}

\* the fields a consumer reads as flight plan data: all but the status
OfpDataFields == OfpStrFields \ {"status"}

\* std::make_unique<OfpInfo>(): stale{false}, seqno{0}, empty strings
NewOfpInfo ==
    [f \in OfpStrFields \cup {"stale", "seqno"} |->
        IF f \in {"stale", "seqno"} THEN 0 ELSE ""]

\* Extract(): the string if the value is one, else the field is left alone
Extract(field, info, fname) ==
    IF is_string(field) THEN [info EXCEPT ![fname] = field.v] ELSE info

\* the loop over a dx_rmk array: string items appended, separated by a blank
\* once the remark is not empty
RECURSIVE JoinRmk(_, _, _)
JoinRmk(a, i, acc) ==
    IF i > Len(a) THEN acc
    ELSE IF is_string(a[i])
         THEN JoinRmk(a, i + 1, (IF acc # "" THEN acc \o " " ELSE acc) \o a[i].v)
         ELSE JoinRmk(a, i + 1, acc)

ExtractRmk(dx_rmk, info) ==
    IF is_string(dx_rmk) THEN [info EXCEPT !.dx_rmk = dx_rmk.v]
    ELSE IF is_array(dx_rmk)
         THEN [info EXCEPT !.dx_rmk = JoinRmk(dx_rmk.a, 1, info.dx_rmk)]
         ELSE info

\* the mandatory keys in the order OfpGetParse reads them:
\* <<section, key, field of OfpInfo>>
OfpSteps ==
    << <<"params", "time_generated", "time_generated">>,
       <<"params", "units", "units">>,
       <<"aircraft", "icaocode", "aircraft_icao">>,
       <<"aircraft", "max_passengers", "max_passengers">>,
       <<"fuel", "plan_ramp", "fuel_plan_ramp">>,
       <<"fuel", "taxi", "fuel_taxi">>,
       <<"origin", "icao_code", "origin">>,
       <<"origin", "plan_rwy", "origin_rwy">>,
       <<"destination", "icao_code", "destination">>,
       <<"destination", "plan_rwy", "destination_rwy">>,
       <<"general", "icao_airline", "icao_airline">>,
       <<"general", "flight_number", "flight_number">>,
       <<"general", "costindex", "ci">>,
       <<"general", "initial_altitude", "altitude">>,
       <<"general", "avg_tropopause", "tropopause">>,
       <<"general", "avg_wind_comp", "wind_component">>,
       <<"general", "avg_temp_dev", "isa_dev">>,
       <<"general", "route", "route">>,
       <<"general", "sid_ident", "sid">>,
       <<"general", "dx_rmk", "dx_rmk">>,
       <<"alternate", "icao_code", "alternate">>,
       <<"alternate", "route", "alt_route">>,
       <<"weights", "oew", "oew">>,
       <<"weights", "pax_count", "pax_count">>,
       <<"weights", "freight_added", "freight">>,
       <<"weights", "payload", "payload">>,
       <<"weights", "max_zfw", "max_zfw">>,
       <<"weights", "max_tow", "max_tow">>,
       <<"times", "est_time_enroute", "est_time_enroute">>,
       <<"times", "est_out", "est_out">>,
       <<"times", "est_off", "est_off">>,
       <<"times", "est_on", "est_on">>,
       <<"times", "est_in", "est_in">> >>

\* lines 117-178: the keys are read in order; the first at() that throws
\* ends the block with the fields read so far
RECURSIVE OfpExtractAll(_, _, _)
OfpExtractAll(doc, info, i) ==
    IF i > Len(OfpSteps) THEN [info |-> info, threw |-> FALSE]
    ELSE LET sec == OfpSteps[i][1]
             key == OfpSteps[i][2]
             fld == OfpSteps[i][3]
         IN  IF ~AtOk(doc, sec) \/ ~AtOk(At(doc, sec), key)
             THEN [info |-> info, threw |-> TRUE]
             ELSE LET v == At(At(doc, sec), key)
                  IN  OfpExtractAll(doc,
                                    IF fld = "dx_rmk" THEN ExtractRmk(v, info)
                                    ELSE Extract(v, info, fld),
                                    i + 1)

\* lines 179-189: the handler of the parsing block.  Its debug dump writes
\* data_obj["fetch"]["userid"] and data_obj["user_id"]; operator[] throws out
\* of the handler, and so out of OfpGetParse, when the document or its
\* "fetch" member is neither null nor an object.
OfpCaught(doc, info) ==
    [info |-> [info EXCEPT !.status = "Invalid JSON data", !.stale = 1],
     ret |-> FALSE,
     threw |-> ~(IndexOk(doc) /\ IndexOk(Index(doc, "fetch")))]

\* a parser that goes on whatever the upstream status says
UpstreamFailedNever(status) == FALSE

\* line 112: ofp_info->status != "Success"
UpstreamFailed(status) == status # "Success"

\* OfpGetParse(pilot_id, ofp_info) on the reply of HttpGet, lines 81-190: the
\* record left in ofp_info, whether line 191 is reached (ret) and whether an
\* exception leaves the function
OfpParse(reply) ==
    IF ~reply.ok
    THEN [info |-> [NewOfpInfo EXCEPT !.status = "Network error", !.stale = 1],
          ret |-> FALSE, threw |-> FALSE]
    ELSE IF ~reply.wf
    THEN [info |-> [NewOfpInfo EXCEPT !.status = "Invalid JSON data", !.stale = 1],
          ret |-> FALSE, threw |-> FALSE]
    ELSE LET doc == reply.doc
         IN  IF ~(/\ AtOk(doc, "fetch")
                  /\ AtOk(At(doc, "fetch"), "status")
                  /\ is_string(At(At(doc, "fetch"), "status")))
             THEN OfpCaught(doc, NewOfpInfo)
             ELSE LET info1 == [NewOfpInfo EXCEPT
                                   !.status = At(At(doc, "fetch"), "status").v]
                  IN  IF UpstreamFailed(info1.status)
                      THEN [info |-> [info1 EXCEPT !.stale = 1],
                            ret |-> FALSE, threw |-> FALSE]
                      ELSE LET r == OfpExtractAll(doc, info1, 1)
                           IN  IF r.threw
                               THEN OfpCaught(doc, r.info)
                               ELSE [info |-> r.info, ret |-> TRUE, threw |-> FALSE]

(***************************************************************************)
(* OFP documents the upstream service is drawn to send.                    *)
(***************************************************************************)
Airports == {"LEBL", "EKCH"}

GoodOfpMembers(origin) ==
    [fetch |-> JObj([userid |-> JStr("4711"), status |-> JStr("Success")]),
     params |-> JObj([time_generated |-> JStr("1753695906"), units |-> JStr("kgs")]),
     aircraft |-> JObj([icaocode |-> JStr("A320"), max_passengers |-> JStr("180")]),
     fuel |-> JObj([plan_ramp |-> JStr("7200"), taxi |-> JStr("200")]),
     origin |-> JObj([icao_code |-> JStr(origin), plan_rwy |-> JStr("24L")]),
     destination |-> JObj([icao_code |-> JStr("EDDF"), plan_rwy |-> JStr("25C")]),
     general |-> JObj([icao_airline |-> JStr("EWG"), flight_number |-> JStr("74A"),
                       costindex |-> JStr("30"), initial_altitude |-> JStr("36000"),
                       avg_tropopause |-> JStr("37400"), avg_wind_comp |-> JStr("-12"),
                       avg_temp_dev |-> JStr("4"), route |-> JStr("DCT"),
                       sid_ident |-> JObj(<<>>),
                       dx_rmk |-> JArr(<<JStr("RMK A"), JStr("RMK B")>>)]),
     alternate |-> JObj([icao_code |-> JStr("EDDK"), route |-> JStr("DCT")]),
     weights |-> JObj([oew |-> JStr("42500"), pax_count |-> JStr("150"),
                       freight_added |-> JStr("0"), payload |-> JStr("15000"),
                       max_zfw |-> JStr("62500"), max_tow |-> JStr("77000")]),
     times |-> JObj([est_time_enroute |-> JStr("7200"), est_out |-> JStr("1753700000"),
                     est_off |-> JStr("1753700600"), est_on |-> JStr("1753707800"),
                     est_in |-> JStr("1753708400")])]

GoodOfp(origin) == JObj(GoodOfpMembers(origin))

\* a document cut off after the named sections
OfpWithout(origin, gone) ==
    JObj([k \in DOMAIN GoodOfpMembers(origin) \ gone |-> GoodOfpMembers(origin)[k]])

\* the service's own error reply
OfpUpstreamError ==
    JObj([fetch |-> JObj([userid |-> JStr("0"), status |-> JStr("Error: Unknown UserID")])])

OfpReplies ==
    {HttpFail, HttpGarbage, HttpJson(OfpUpstreamError),
     HttpJson(JArr(<<>>)),
     HttpJson(JObj([fetch |-> JStr("down")]))}
    \cup {HttpJson(GoodOfp(a)) : a \in Airports}
    \cup {HttpJson(OfpWithout(a, {"times"})) : a \in Airports}

\* the flight plan for LEBL with section sec replaced, with key sec.key
\* replaced, and with key sec.key removed
OfpWithSection(sec, v) == JObj([GoodOfpMembers("LEBL") EXCEPT ![sec] = v])

OfpWithKey(sec, key, v) ==
    OfpWithSection(sec, JObj([GoodOfpMembers("LEBL")[sec].m EXCEPT ![key] = v]))

OfpWithoutKey(sec, key) ==
    LET m == GoodOfpMembers("LEBL")[sec].m
    IN  OfpWithSection(sec, JObj([k \in DOMAIN m \ {key} |-> m[k]]))

\* the service's error status on a document that is complete otherwise, and
\* on one whose other sections are damaged
OfpExpired ==
    OfpWithSection("fetch", JObj([userid |-> JStr("4711"),
                                  status |-> JStr("Error: Flight plan expired")]))

OfpBusyDamaged ==
    JObj([fetch |-> JObj([status |-> JStr("Error: Busy")]),
          params |-> JStr("none"), general |-> JArr(<<>>)])

\* values of general.dx_rmk
RmkValues ==
    {JStr("RMK ONLY"), JStr(""), JArr(<<>>), JArr(<<JStr("RMK A")>>),
     JArr(<<JStr("RMK A"), JStr("RMK B"), JStr("RMK C")>>),
     JArr(<<JStr(""), JStr("RMK B")>>),
     JArr(<<JStr("RMK A"), JStr(""), JStr("RMK B")>>),
     JArr(<<JNum, JStr("RMK B")>>),
     JNull, JNum, JObj(<<>>)}

\* replies for the parser: transport and syntax failures, upstream errors,
\* documents with a key or section missing or of another type, and complete
\* documents with every remark value
ParseReplies ==
    {HttpFail, HttpGarbage, HttpJson(JArr(<<>>)), HttpJson(JNull),
     HttpJson(OfpUpstreamError), HttpJson(OfpExpired), HttpJson(OfpBusyDamaged),
     HttpJson(OfpWithSection("fetch", JObj([status |-> JNum]))),
     HttpJson(OfpWithSection("fetch", JStr("down"))),
     HttpJson(OfpWithout("LEBL", {"times"})),
     HttpJson(OfpWithSection("params", JStr("none"))),
     HttpJson(OfpWithoutKey("general", "route")),
     HttpJson(OfpWithoutKey("general", "dx_rmk")),
     HttpJson(OfpWithKey("general", "costindex", JNum)),
     HttpJson(OfpWithKey("origin", "plan_rwy", JNull))}
    \cup {HttpJson(OfpWithKey("general", "dx_rmk", v)) : v \in RmkValues}

\* OfpParse of every reply of the model, computed once
OfpParsed == [reply \in OfpReplies \cup ParseReplies |-> OfpParse(reply)]

\* an OfpGetParse that counts every call in the static seqno
OfpGetParseCountsAll(reply, seq) ==
    LET p == OfpParsed[reply]
    IN  IF p.ret
        THEN [info |-> [p.info EXCEPT !.stale = 0, !.seqno = seq + 1],
              ret |-> TRUE, threw |-> FALSE, seqno |-> seq + 1]
        ELSE [info |-> p.info, ret |-> FALSE, threw |-> p.threw, seqno |-> seq + 1]

\* OfpGetParse with the static seqno of ofp_get_parse.cpp at seq: lines
\* 191-194 mark the record of a complete parse fresh and number it
OfpGetParse(reply, seq) ==
    LET p == OfpParsed[reply]
    IN  IF p.ret
        THEN [info |-> [p.info EXCEPT !.stale = 0, !.seqno = seq + 1],
              ret |-> TRUE, threw |-> FALSE, seqno |-> seq + 1]
        ELSE [info |-> p.info, ret |-> FALSE, threw |-> p.threw, seqno |-> seq]

(***************************************************************************)
(* CdmInfo (sbh.h), the server directory and CdmGetParse                   *)
(* (the current cdm_get_parse.cpp, src/unnamed/part_004).                  *)
(***************************************************************************)
kProtoInvalid == "kProtoInvalid"
kProtoRPuig == "kProtoRPuig"
kProtoVacdmV1 == "kProtoVacdmV1"

\* std::make_unique<CdmInfo>()
NewCdmInfo ==
    [seqno |-> 0, url |-> "", status |-> "", tobt |-> "", tsat |-> "",
     runway |-> "", sid |-> ""]

\* Server::Server(name, url, proto)
Server(name, url, proto) ==
    [name_ |-> name, url_ |-> url, proto_ |-> proto, retrieved_ |-> FALSE,
     retries_left_ |-> kMaxRetries, airports_ |-> <<>>]

is_dead(s) == s.retries_left_ <= 0

\* GetJson(): the null object unless the transfer succeeded and the body parsed
GetJson(reply) == IF reply.ok /\ reply.wf THEN reply.doc ELSE JNull

\* the airport codes of the model in the order std::map iterates them
IcaoOrder == <<"EKCH", "LEBL">>

\* airports_[icao] = airport
PutAirport(airports, icao, airport) ==
    [k \in DOMAIN airports \cup {icao} |->
        IF k = icao THEN airport ELSE airports[k]]

\* airport_obj.items(): the <<key, value>> pairs a range-for visits.  The
\* members of an object in key order (the objects of the model have airport
\* codes for keys), the elements of an array under their index, nothing for
\* null, a primitive itself under the empty key
RPuigItems(airport_obj) ==
    IF is_object(airport_obj)
    THEN LET keys == SelectSeq(IcaoOrder, LAMBDA k : k \in DOMAIN airport_obj.m)
         IN  [i \in 1..Len(keys) |-> <<keys[i], airport_obj.m[keys[i]]>>]
    ELSE IF is_array(airport_obj)
    THEN [i \in 1..Len(airport_obj.a) |-> <<itoa(i - 1), airport_obj.a[i]>>]
    ELSE IF is_null(airport_obj) THEN <<>>
    ELSE << <<"", airport_obj>> >>

\* the kProtoRPuig loop over data_obj.at("airports").items(): url_list[0]
\* throws for a value that is not an array, get<std::string>() for a first
\* element that is not a string, and the loop ends there.  (url_list[0] of
\* an empty array reads past the end of the vector; no roster of the model
\* has an empty url list.)
RECURSIVE RPuigAirports(_, _, _, _)
RPuigAirports(items, i, airports, proto) ==
    IF i > Len(items) THEN [airports |-> airports, threw |-> FALSE]
    ELSE LET icao == items[i][1]
             url_list == items[i][2]
         IN  IF ~(is_array(url_list) /\ Len(url_list.a) > 0
                                     /\ is_string(url_list.a[1]))
             THEN [airports |-> airports, threw |-> TRUE]
             ELSE RPuigAirports(items, i + 1,
                      PutAirport(airports, icao,
                          [icao |-> icao, url |-> url_list.a[1].v,
                           proto |-> proto]),
                      proto)

\* the kProtoVacdmV1 loop over the array of airport descriptors
RECURSIVE VacdmAirports(_, _, _, _, _)
VacdmAirports(list, i, airports, url, proto) ==
    IF i > Len(list) THEN [airports |-> airports, threw |-> FALSE]
    ELSE IF ~(AtOk(list[i], "icao") /\ is_string(At(list[i], "icao")))
         THEN [airports |-> airports, threw |-> TRUE]
         ELSE VacdmAirports(list, i + 1,
                  PutAirport(airports, At(list[i], "icao").v,
                      [icao |-> At(list[i], "icao").v, url |-> url, proto |-> proto]),
                  url, proto)

\* the elements a range-for visits in a json value: those of an array, the
\* member values of an object, none of null, the value itself for a primitive
RECURSIVE ObjValues(_, _)
ObjValues(m, keys) ==
    IF keys = {} THEN <<>>
    ELSE LET k == CHOOSE k \in keys : TRUE
         IN  <<m[k]>> \o ObjValues(m, keys \ {k})

JElements(j) ==
    IF is_array(j) THEN j.a
    ELSE IF is_object(j) THEN ObjValues(j.m, DOMAIN j.m)
    ELSE IF is_null(j) THEN <<>>
    ELSE <<j>>

\* Server::RetrieveAirports() on the reply of the roster request:
\* the server afterwards, the return value and whether a request was made
RetrieveAirports(s, reply) ==
    IF s.retrieved_ THEN [s |-> s, ret |-> TRUE, called |-> FALSE]
    ELSE LET data_obj == GetJson(reply)
         IN  IF is_null(data_obj)
             THEN [s |-> [s EXCEPT !.retries_left_ = @ - 1], ret |-> FALSE,
                   called |-> TRUE]
             ELSE LET r == IF s.proto_ = kProtoRPuig
                           THEN IF AtOk(data_obj, "airports")
                                THEN RPuigAirports(
                                         RPuigItems(At(data_obj, "airports")), 1,
                                         s.airports_, s.proto_)
                                ELSE [airports |-> s.airports_, threw |-> TRUE]
                           ELSE VacdmAirports(JElements(data_obj), 1,
                                              s.airports_, s.url_, s.proto_)
                  IN  IF r.threw
                      THEN [s |-> [s EXCEPT !.airports_ = r.airports],
                            ret |-> FALSE, called |-> TRUE]
                      ELSE [s |-> [s EXCEPT !.airports_ = r.airports,
                                            !.retrieved_ = TRUE],
                            ret |-> TRUE, called |-> TRUE]

\* the loop of FindUrl over servers[i..]: dir is [servers, icao_c, url_c,
\* proto_c, calls], replies[i] the reply server i gives to a roster request
RECURSIVE FindUrlFrom(_, _, _, _)
FindUrlFrom(icao, dir, replies, i) ==
    IF i > Len(dir.servers)
    THEN [url |-> "", proto |-> kProtoInvalid, dir |-> dir]
    ELSE IF is_dead(dir.servers[i]) THEN FindUrlFrom(icao, dir, replies, i + 1)
    ELSE LET r == RetrieveAirports(dir.servers[i], replies[i])
             dir1 == [dir EXCEPT !.servers[i] = r.s,
                                 !.calls[i] = @ + (IF r.called THEN 1 ELSE 0)]
         IN  IF ~r.ret THEN FindUrlFrom(icao, dir1, replies, i + 1)
             ELSE IF icao \notin DOMAIN r.s.airports_
                  THEN FindUrlFrom(icao, dir1, replies, i + 1)
                  ELSE LET h == r.s.airports_[icao]
                       IN  [url |-> h.url, proto |-> h.proto,
                            dir |-> [dir1 EXCEPT !.icao_c = icao, !.url_c = h.url,
                                                 !.proto_c = h.proto]]

\* a FindUrl that scans the servers on every call
FindUrlNoMemo(icao, dir, replies) == FindUrlFrom(icao, dir, replies, 1)

\* a FindUrl that empties the memo when its scan finds no server
FindUrlForgets(icao, dir, replies) ==
    IF icao = dir.icao_c
    THEN [url |-> dir.url_c, proto |-> dir.proto_c, dir |-> dir]
    ELSE LET r == FindUrlFrom(icao, dir, replies, 1)
         IN  IF r.url # "" THEN r
             ELSE [r EXCEPT !.dir.icao_c = "", !.dir.url_c = "",
                            !.dir.proto_c = kProtoInvalid]

\* FindUrl(icao)
FindUrl(icao, dir, replies) ==
    IF icao = dir.icao_c
    THEN [url |-> dir.url_c, proto |-> dir.proto_c, dir |-> dir]
    ELSE FindUrlFrom(icao, dir, replies, 1)

\* an ExtractHHMM that does not know the epoch sentinel
ExtractHHMMNoSentinel(time) ==
    IF Len(time) < 16 THEN ""
    ELSE SubSeq(time, 12, 13) \o SubSeq(time, 15, 16)

\* ExtractHHMM(time): characters 11-12 and 14-15, counted from 0
ExtractHHMM(time) ==
    IF time = "1969-12-31T23:59:59.999Z" \/ Len(time) < 16 THEN ""
    ELSE SubSeq(time, 12, 13) \o SubSeq(time, 15, 16)

\* j.at(key).get<std::string>() returns normally
StrAtOk(j, key) == AtOk(j, key) /\ is_string(At(j, key))

\* case kProtoVacdmV1 of CdmGetParse, past GetJson
CdmParseVacdm(flight, info) ==
    IF ~AtOk(flight, "vacdm") THEN info
    ELSE LET vacdm == At(flight, "vacdm")
         IN  IF ~StrAtOk(vacdm, "tobt") THEN info
             ELSE LET i1 == [info EXCEPT !.tobt = ExtractHHMM(At(vacdm, "tobt").v)]
                  IN  IF ~StrAtOk(vacdm, "tsat") THEN i1
                      ELSE LET i2 == [i1 EXCEPT !.tsat = ExtractHHMM(At(vacdm, "tsat").v)]
                           IN  IF ~AtOk(flight, "clearance") THEN i2
                               ELSE LET clearance == At(flight, "clearance")
                                    IN  IF ~StrAtOk(clearance, "dep_rwy") THEN i2
                                        ELSE LET i3 == [i2 EXCEPT !.runway = At(clearance, "dep_rwy").v]
                                             IN  IF ~StrAtOk(clearance, "sid") THEN i3
                                                 ELSE [i3 EXCEPT !.sid = At(clearance, "sid").v,
                                                                 !.status = kSuccess]

\* EXTRACT(tobt) .. EXTRACT(sid) on the flight of the callsign
CdmExtractRPuig(f, info) ==
    IF ~StrAtOk(f, "tobt") THEN info
    ELSE LET i1 == [info EXCEPT !.tobt = At(f, "tobt").v]
         IN  IF ~StrAtOk(f, "tsat") THEN i1
             ELSE LET i2 == [i1 EXCEPT !.tsat = At(f, "tsat").v]
                  IN  IF ~StrAtOk(f, "runway") THEN i2
                      ELSE LET i3 == [i2 EXCEPT !.runway = At(f, "runway").v]
                           IN  IF ~StrAtOk(f, "sid") THEN i3
                               ELSE [i3 EXCEPT !.sid = At(f, "sid").v,
                                               !.status = kSuccess]

\* the loop over flights of case kProtoRPuig
RECURSIVE CdmScanRPuig(_, _, _, _)
CdmScanRPuig(flights, i, callsign, info) ==
    IF i > Len(flights) THEN info
    ELSE IF ~StrAtOk(flights[i], "callsign") THEN info
    ELSE IF At(flights[i], "callsign").v = callsign
         THEN CdmExtractRPuig(flights[i], info)
         ELSE CdmScanRPuig(flights, i + 1, callsign, info)

\* CdmGetParse past FindUrl, lines 281-347: info holds the record made at
\* line 272; every path that does not return true ends with a failure status
CdmGetFlight(url, proto, callsign, reply, info) ==
    LET i0 == [info EXCEPT !.url = IF proto = kProtoVacdmV1
                                   THEN url \o "/api/v1/pilots/" \o callsign
                                   ELSE url]
    IN  IF proto \notin {kProtoVacdmV1, kProtoRPuig}
        THEN [i0 EXCEPT !.status = "Flight not found"]
        ELSE IF is_null(GetJson(reply))
        THEN [i0 EXCEPT !.status = "Failed to retrieve CDM data"]
        ELSE LET r == IF proto = kProtoVacdmV1
                      THEN CdmParseVacdm(GetJson(reply), i0)
                      ELSE IF AtOk(GetJson(reply), "flights")
                           THEN CdmScanRPuig(JElements(At(GetJson(reply), "flights")),
                                             1, callsign, i0)
                           ELSE i0
             IN  IF r.status = kSuccess THEN r
                 ELSE [r EXCEPT !.status = "Flight not found"]

(***************************************************************************)
(* Replies the CDM servers are drawn to send.                              *)
(***************************************************************************)
SpainUrl == "https://aman.vatsimspain.es"
ScandUrl == "https://cdm.vatsim-scandinavia.org"
LeblFeed == "https://aman.vatsimspain.es/LEBL.json"

\* cdm_cfg.default.json of the model: one server of each protocol
DefaultServers ==
    <<Server("Spain", SpainUrl, kProtoRPuig),
      Server("Scandinavia", ScandUrl, kProtoVacdmV1)>>

(***************************************************************************)
(* CdmInit(cfg_path): a configuration file is absent, or lacks the magic   *)
(* marker, or holds text after the marker that parses or does not.         *)
(***************************************************************************)
NoFile == [exists |-> FALSE, marker |-> FALSE, wf |-> FALSE, doc |-> JNull]
NoMarker == [exists |-> TRUE, marker |-> FALSE, wf |-> FALSE, doc |-> JNull]
CfgGarbage == [exists |-> TRUE, marker |-> TRUE, wf |-> FALSE, doc |-> JNull]
CfgJson(doc) == [exists |-> TRUE, marker |-> TRUE, wf |-> TRUE, doc |-> doc]

\* s.at("enabled").get<bool>() returns normally
GetBoolOk(s, key) == AtOk(s, key) /\ is_boolean(At(s, key))

\* the protocol tags CdmInit knows
ProtocolOf(protocol) ==
    IF protocol = "rpuig" THEN kProtoRPuig
    ELSE IF protocol = "vacdm_v1" THEN kProtoVacdmV1
    ELSE kProtoInvalid

\* the loop over cfg.at("servers"), from entry i on, with srv the global
\* server list: an exception and an unknown protocol tag both return false
\* and leave in the list what was pushed before
RECURSIVE CdmInitFrom(_, _, _)
CdmInitFrom(list, i, srv) ==
    IF i > Len(list) THEN [ret |-> TRUE, servers |-> srv]
    ELSE LET s == list[i]
             failed == [ret |-> FALSE, servers |-> srv]
         IN  IF ~StrAtOk(s, "name") THEN failed
             ELSE IF ~GetBoolOk(s, "enabled") THEN failed
             ELSE IF ~At(s, "enabled").b THEN CdmInitFrom(list, i + 1, srv)
             ELSE IF ~StrAtOk(s, "protocol") THEN failed
             ELSE IF ~StrAtOk(s, "url") THEN failed
             ELSE IF ProtocolOf(At(s, "protocol").v) = kProtoInvalid THEN failed
             ELSE CdmInitFrom(list, i + 1,
                              Append(srv, Server(At(s, "name").v, At(s, "url").v,
                                                 ProtocolOf(At(s, "protocol").v))))

\* CdmInit(cfg_path) called with srv in the global server list
CdmInit(file, srv) ==
    IF ~file.exists \/ ~file.marker \/ ~file.wf
    THEN [ret |-> FALSE, servers |-> srv]
    ELSE IF ~(AtOk(file.doc, "servers") /\ is_array(At(file.doc, "servers")))
    THEN [ret |-> FALSE, servers |-> srv]
    ELSE CdmInitFrom(At(file.doc, "servers").a, 1, srv)

\* an entry of the "servers" array
CfgEntry(name, enabled, protocol, url) ==
    JObj([name |-> JStr(name), enabled |-> JBool(enabled),
          protocol |-> JStr(protocol), url |-> JStr(url)])

GermanyUrl == "https://vacdm.vatsim-germany.org"
BetaUrl == "https://cdm.example.org"

\* the entries of the model: the two of the default file, a disabled one, an
\* enabled and a disabled one with a protocol tag CdmInit does not know
CfgEntries ==
    {CfgEntry("Spain", TRUE, "rpuig", SpainUrl),
     CfgEntry("Scandinavia", TRUE, "vacdm_v1", ScandUrl),
     CfgEntry("Germany", FALSE, "vacdm_v1", GermanyUrl),
     CfgEntry("Beta", TRUE, "vacdm_v2", BetaUrl),
     CfgEntry("BetaOff", FALSE, "vacdm_v2", BetaUrl)}

\* the longest "servers" array of a configuration file of the model
MaxCfgLen == 2

CfgFileOf(list) == CfgJson(JObj([servers |-> JArr(list)]))

\* cdm_cfg.json: absent, damaged, or any list of the entries
UserCfgFiles ==
    {NoFile, NoMarker, CfgGarbage, CfgJson(JObj([servers |-> JStr("none")]))}
    \cup {CfgFileOf(list) : list \in UNION {[1..n -> CfgEntries] : n \in 0..MaxCfgLen}}

\* cdm_cfg.default.json: as shipped, absent, or changed by the user
DefaultCfgFiles ==
    {NoFile,
     CfgFileOf(<<CfgEntry("Spain", TRUE, "rpuig", SpainUrl),
                 CfgEntry("Scandinavia", TRUE, "vacdm_v1", ScandUrl)>>),
     CfgFileOf(<<CfgEntry("Scandinavia", TRUE, "vacdm_v1", ScandUrl)>>),
     CfgFileOf(<<CfgEntry("Beta", TRUE, "vacdm_v2", BetaUrl)>>)}

\* the rosters the two servers serve when they answer
SpainRoster == HttpJson(JObj([airports |-> JObj([LEBL |-> JArr(<<JStr(LeblFeed)>>)])]))
ScandRoster == HttpJson(JArr(<<JObj([icao |-> JStr("EKCH")])>>))

\* one reply per server of DefaultServers, should FindUrl ask it
RosterReplies == {<<SpainRoster, ScandRoster>>}

Callsigns == {"EWG74A"}

RPuigFlight(cs, tobt, tsat, runway, sid) ==
    JObj([callsign |-> JStr(cs), tobt |-> JStr(tobt), tsat |-> JStr(tsat),
          runway |-> JStr(runway), sid |-> JStr(sid)])

RPuigFeed(flights) == HttpJson(JObj([flights |-> JArr(flights)]))

VacdmFlight(tobt, tsat, rwy, sid) ==
    HttpJson(JObj([vacdm |-> JObj([tobt |-> JStr(tobt), tsat |-> JStr(tsat)]),
                   clearance |-> JObj([dep_rwy |-> JStr(rwy), sid |-> JStr(sid)])]))

FlightReplies ==
    {HttpFail,
     RPuigFeed(<<>>),
     RPuigFeed(<<RPuigFlight("EWG74A", "0945", "0950", "24L", "SENIA4Q")>>),
     RPuigFeed(<<RPuigFlight("EWG74A", "1000", "0950", "24L", "SENIA4Q")>>),
     RPuigFeed(<<RPuigFlight("EWG74A", "0945", "0950", "24L", "DALIN3Q")>>),
     RPuigFeed(<<JObj([callsign |-> JStr("EWG74A"), tobt |-> JStr("0945")])>>),
     VacdmFlight("2025-07-28T09:45:06.694Z", "2025-07-28T09:50:00.000Z", "24L", "SENIA4Q"),
     VacdmFlight("2025-07-28T09:45:06.694Z", "1969-12-31T23:59:59.999Z", "22R", "SENIA4Q")}

\* the epoch sentinel of a time not set
kEpochSentinel == "1969-12-31T23:59:59.999Z"

\* timestamps of a vACDM reply: the sentinel, the sentinel cut short by one
\* character, the empty string, 15 and 16 characters, a full timestamp, 16
\* characters that are no timestamp
Timestamps ==
    {kEpochSentinel, "1969-12-31T23:59:59.999", "", "2025-07-28T09:4",
     "2025-07-28T09:46", "2025-07-28T10:15:06.694Z", "ABCDEFGHIJKLMNOP"}

TimeReplies ==
    {VacdmFlight(tobt, tsat, "22R", "SENIA4Q") : tobt \in Timestamps, tsat \in Timestamps}

PilotIds == {"", "4711"}

\* what the host reports as the time since the last flight loop callback
TickSteps == {100}

(***************************************************************************)
(* The pseudo-XML parser (unnamed/part_000): get_element_text, POSITION,   *)
(* EXTRACT and ofp_get_parse.  Offsets count characters from 0 as in the   *)
(* C code; the buffer holds the document and a terminating 0 after it.     *)
(***************************************************************************)
\* strstr on the C string that starts at offset from and ends before offset
\* limit: the offset of the first occurrence of needle, -1 for NULL
Strstr(xml, from, limit, needle) ==
    LET hits == {i \in from..(limit - Len(needle)) :
                    /\ SubSeq(xml, i + 1, i + 1) = SubSeq(needle, 1, 1)
                    /\ SubSeq(xml, i + 1, i + Len(needle)) = needle}
    IN  IF hits = {} THEN -1
        ELSE CHOOSE i \in hits : \A j \in hits : i <= j

\* a get_element_text that searches the start tag inside the range only
get_element_text_bounded(xml, start_ofs, end_ofs, tag) ==
    LET stag == "<" \o tag \o ">"
        etag == "</" \o tag \o ">"
        s0 == Strstr(xml, start_ofs, end_ofs, stag)
        e == Strstr(xml, s0 + Len(stag), end_ofs, etag)
    IN  IF s0 = -1 \/ e = -1 THEN [ok |-> FALSE, text_start |-> 0, text_end |-> 0]
        ELSE [ok |-> TRUE, text_start |-> s0 + Len(stag), text_end |-> e]

\* get_element_text(xml, start_ofs, end_ofs, tag).  The start tag is searched
\* from start_ofs to the end of the document.  The 0 written at end_ofs ends
\* the search for the end tag when it lies at or after the text start; a text
\* start beyond end_ofs is searched to the end of the document.
get_element_text(xml, start_ofs, end_ofs, tag) ==
    LET stag == "<" \o tag \o ">"
        etag == "</" \o tag \o ">"
        s0 == Strstr(xml, start_ofs, Len(xml), stag)
        s == s0 + Len(stag)
        e == Strstr(xml, s, IF s <= end_ofs THEN end_ofs ELSE Len(xml), etag)
    IN  IF s0 = -1 \/ e = -1 THEN [ok |-> FALSE, text_start |-> 0, text_end |-> 0]
        ELSE [ok |-> TRUE, text_start |-> s, text_end |-> e]

\* sizeof of the char arrays of ofp_info_t (unnamed/part_001)
LegacyFieldSize ==
    [units |-> 10, status |-> 100, icao_airline |-> 6, flight_number |-> 10,
     aircraft_icao |-> 10, max_passengers |-> 10, fuel_plan_ramp |-> 10,
     origin |-> 10, origin_rwy |-> 6, destination |-> 10, alternate |-> 10,
     destination_rwy |-> 10, ci |-> 10, altitude |-> 10, tropopause |-> 10,
     isa_dev |-> 10, wind_component |-> 10, oew |-> 10, pax_count |-> 10,
     freight |-> 10, payload |-> 10, route |-> 1000, alt_route |-> 1000,
     sb_path |-> 200, time_generated |-> 11, est_time_enroute |-> 11]

\* memset(ofp_info, 0, sizeof(*ofp_info))
NewLegacyInfo == [f \in DOMAIN LegacyFieldSize |-> ""]

\* POSITION(tag): the range of the outer tag in the whole document
POSITION(ofp, tag) == get_element_text(ofp, 0, Len(ofp), tag)

\* EXTRACT(tag, field) in the range out_s .. out_e: strncpy of at most
\* sizeof(field) characters of the text into the zeroed field (a text that
\* fills the array leaves it without a terminating 0; the documents of the
\* model have no text that long)
EXTRACT(ofp, out_s, out_e, tag, field, info) ==
    LET t == get_element_text(ofp, out_s, out_e, tag)
        n == IF LegacyFieldSize[field] < t.text_end - t.text_start
             THEN LegacyFieldSize[field] ELSE t.text_end - t.text_start
    IN  IF t.ok
        THEN [info EXCEPT ![field] = SubSeq(ofp, t.text_start + 1, t.text_start + n)]
        ELSE info

\* the sections after "fetch" in the order ofp_get_parse reads them:
\* <<outer tag, <<inner tag, field>>, ...>>
LegacySections ==
    << <<"params", << <<"time_generated", "time_generated">>, <<"units", "units">> >> >>,
       <<"aircraft", << <<"icaocode", "aircraft_icao">>,
                        <<"max_passengers", "max_passengers">> >> >>,
       <<"fuel", << <<"plan_ramp", "fuel_plan_ramp">> >> >>,
       <<"origin", << <<"icao_code", "origin">>, <<"plan_rwy", "origin_rwy">> >> >>,
       <<"destination", << <<"icao_code", "destination">>,
                           <<"plan_rwy", "destination_rwy">> >> >>,
       <<"general", << <<"icao_airline", "icao_airline">>,
                       <<"flight_number", "flight_number">>,
                       <<"costindex", "ci">>, <<"initial_altitude", "altitude">>,
                       <<"avg_tropopause", "tropopause">>,
                       <<"avg_wind_comp", "wind_component">>,
                       <<"avg_temp_dev", "isa_dev">>, <<"route", "route">> >> >>,
       <<"alternate", << <<"icao_code", "alternate">>, <<"route", "alt_route">> >> >>,
       <<"weights", << <<"oew", "oew">>, <<"pax_count", "pax_count">>,
                       <<"freight_added", "freight">>, <<"payload", "payload">> >> >>,
       <<"times", << <<"est_time_enroute", "est_time_enroute">> >> >> >>

\* the EXTRACTs of one section, from the i-th on
RECURSIVE LegacyExtracts(_, _, _, _, _, _)
LegacyExtracts(ofp, out_s, out_e, inner, i, info) ==
    IF i > Len(inner) THEN info
    ELSE LegacyExtracts(ofp, out_s, out_e, inner, i + 1,
                        EXTRACT(ofp, out_s, out_e, inner[i][1], inner[i][2], info))

\* if (POSITION(outer)) { EXTRACT ... } for the sections from the k-th on
RECURSIVE LegacySectionsFrom(_, _, _)
LegacySectionsFrom(ofp, k, info) ==
    IF k > Len(LegacySections) THEN info
    ELSE LET pos == POSITION(ofp, LegacySections[k][1])
         IN  LegacySectionsFrom(ofp, k + 1,
                 IF pos.ok
                 THEN LegacyExtracts(ofp, pos.text_start, pos.text_end,
                                     LegacySections[k][2], 1, info)
                 ELSE info)

\* what HttpGet wrote to the temporary file
XmlFail == [ok |-> FALSE, body |-> ""]
XmlBody(body) == [ok |-> TRUE, body |-> body]

\* ofp_get_parse(pilot_id, ofp_info) on the reply of HttpGet: the value
\* returned and the record left
LegacyParse(reply) ==
    IF ~reply.ok
    THEN [res |-> 0, info |-> [NewLegacyInfo EXCEPT !.status = "Network error"]]
    ELSE LET ofp == reply.body
             pos == POSITION(ofp, "fetch")
             info1 == IF pos.ok
                      THEN EXTRACT(ofp, pos.text_start, pos.text_end, "status",
                                   "status", NewLegacyInfo)
                      ELSE NewLegacyInfo
         IN  IF pos.ok /\ info1.status # "Success"
             THEN [res |-> 1, info |-> info1]
             ELSE [res |-> 1, info |-> LegacySectionsFrom(ofp, 1, info1)]

\* an element and a section of a document
XmlElem(tag, text) == "<" \o tag \o ">" \o text \o "</" \o tag \o ">"

\* the documents of the model: a fetch section with a status or none, then
\* origin, destination, general and alternate, each with or without each of
\* its inner elements
XmlDocs ==
    {fetch
     \o XmlElem("origin", (IF b[1] THEN XmlElem("icao_code", "LEBL") ELSE "")
                          \o (IF b[2] THEN XmlElem("plan_rwy", "24L") ELSE ""))
     \o XmlElem("destination", (IF b[3] THEN XmlElem("icao_code", "EDDF") ELSE "")
                               \o (IF b[4] THEN XmlElem("plan_rwy", "25C") ELSE ""))
     \o XmlElem("general", (IF b[5] THEN XmlElem("route", "DCT") ELSE ""))
     \o XmlElem("alternate", (IF b[6] THEN XmlElem("icao_code", "EDDK") ELSE "")) :
        fetch \in {"", XmlElem("fetch", XmlElem("status", "Success")),
                   XmlElem("fetch", XmlElem("status", "Error"))},
        b \in [1..6 -> BOOLEAN]}

(***************************************************************************)
(* The state of the plugin.                                                *)
(***************************************************************************)
VARIABLES
    pstate,               \* running, stopping (in XPluginStop), stopped, crashed;
                          \* unloaded (before XPluginStart), disabled (it returned 0)
    ofp_attempt,          \* the status the last OFP fetch a poll saw complete ended with
    pilot_id, cdm_airport, callsign, cdm_seqno, fake_xpilot,
    now, air_time, cdm_next_poll_ts,
    ofp_download_active, ofp_info, cdm_download_active, cdm_info,
    ofp_info_new, cdm_info_new,
    ofp_download_future,  \* invalid, pending, ready, exception
    cdm_download_future,
    xpilot_status_dr,     \* TRUE: the dataref was found
    xpilot_connected,     \* the static of CdmPollEnabled
    init_done,            \* the static of XPluginReceiveMessage
    seqno,                \* the static of ofp_get_parse.cpp
    servers, icao_c, url_c, proto_c,
    ofp_tasks,            \* the running OfpGetParse tasks, each at "start" or "fetch"
    cdm_tasks,            \* the running CdmGetParse tasks: [pc, url, proto]
    roster_calls,         \* roster requests made to each server so far
    resolved,             \* the last call of FindUrl: its argument and result
    ticks,                \* flight loop callbacks so far
    last                  \* what the last handler of the driving thread did

timevars == <<now, air_time, cdm_next_poll_ts, ticks>>
dirvars == <<servers, icao_c, url_c, proto_c, roster_calls, resolved>>
ofpvars == <<ofp_download_active, ofp_info, ofp_info_new, ofp_download_future,
             ofp_tasks, seqno, ofp_attempt>>
cdmvars == <<cdm_download_active, cdm_info, cdm_info_new, cdm_download_future,
             cdm_tasks, cdm_seqno>>
xpvars == <<xpilot_status_dr, xpilot_connected, init_done, fake_xpilot>>
idvars == <<pilot_id, cdm_airport, callsign>>

vars == <<pstate, idvars, timevars, dirvars, ofpvars, cdmvars, xpvars, last>>

\* everything but the record of the last handler
progvars == <<pstate, idvars, timevars, dirvars, ofpvars, cdmvars, xpvars>>

\* op: the handler; ofp, cdm: what its poll of that kind found (none, running,
\* success, failure, threw; none, running, discarded, published); fetch: what
\* its fetch request did (none, started, ignored, nopilot); wrote: which of
\* pilot_id, cdm_airport, callsign it assigned
Event(op, ofp, cdm, fetch, wrote) ==
    [op |-> op, ofp |-> ofp, cdm |-> cdm, fetch |-> fetch, wrote |-> wrote]

\* the call FindUrl(icao) that returned <<url, proto>> from directory dir.
\* again: the call before it had the same argument; memo: the code the memo
\* held when it was called; calls: the roster requests it made
Resolution(icao, r, dir) ==
    [done |-> TRUE, icao |-> icao, url |-> r.url, proto |-> r.proto,
     again |-> resolved.done /\ resolved.icao = icao,
     memo |-> dir.icao_c,
     calls |-> [i \in DOMAIN dir.calls |-> r.dir.calls[i] - dir.calls[i]]]

\* the state XPluginStart leaves: CdmInit has loaded the servers, LoadPrefs the
\* pilot id, XPILOT_CALLSIGN may fake the xPilot connection
Init ==
    /\ pstate = "running"
    /\ ofp_attempt = "none"
    /\ pilot_id \in PilotIds
    /\ cdm_airport = ""
    /\ fake_xpilot \in BOOLEAN
    /\ callsign = IF fake_xpilot THEN "EWG74A" ELSE ""
    /\ cdm_seqno = 0
    /\ now = 0 /\ air_time = 0 /\ cdm_next_poll_ts = 0 /\ ticks = 0
    /\ ofp_download_active = FALSE /\ cdm_download_active = FALSE
    /\ ofp_info = NULL /\ cdm_info = NULL
    /\ ofp_info_new = NULL /\ cdm_info_new = NULL
    /\ ofp_download_future = "invalid" /\ cdm_download_future = "invalid"
    /\ xpilot_status_dr = FALSE /\ xpilot_connected = FALSE /\ init_done = FALSE
    /\ seqno = 0
    /\ servers = DefaultServers
    /\ icao_c = "" /\ url_c = "" /\ proto_c = kProtoInvalid
    /\ ofp_tasks = <<>> /\ cdm_tasks = <<>>
    /\ roster_calls = [i \in 1..Len(DefaultServers) |-> 0]
    /\ resolved = [done |-> FALSE, icao |-> "", url |-> "", proto |-> kProtoInvalid,
                   again |-> FALSE, memo |-> "",
                   calls |-> [i \in 1..Len(DefaultServers) |-> 0]]
    /\ last = Event("XPluginStart", "none", "none", "none", {})

(***************************************************************************)
(* XPluginStart() from the loaded, not yet started plugin: the two          *)
(* configuration files, then the preferences.  A return of 0 makes the     *)
(* host unload the plugin without another call.                            *)
(***************************************************************************)
\* a start that goes on whatever the two CdmInit calls returned
CfgLoadedAlways(user_ok, dflt_ok) == TRUE

\* CdmInit(cdm_cfg.json) || CdmInit(cdm_cfg.default.json)
CfgLoaded(user_ok, dflt_ok) == user_ok \/ dflt_ok

InitUnloaded ==
    /\ pstate = "unloaded"
    /\ ofp_attempt = "none"
    /\ pilot_id = "" /\ cdm_airport = "" /\ callsign = ""
    /\ fake_xpilot = FALSE
    /\ cdm_seqno = 0
    /\ now = 0 /\ air_time = 0 /\ cdm_next_poll_ts = 0 /\ ticks = 0
    /\ ofp_download_active = FALSE /\ cdm_download_active = FALSE
    /\ ofp_info = NULL /\ cdm_info = NULL
    /\ ofp_info_new = NULL /\ cdm_info_new = NULL
    /\ ofp_download_future = "invalid" /\ cdm_download_future = "invalid"
    /\ xpilot_status_dr = FALSE /\ xpilot_connected = FALSE /\ init_done = FALSE
    /\ seqno = 0
    /\ servers = <<>>
    /\ icao_c = "" /\ url_c = "" /\ proto_c = kProtoInvalid
    /\ ofp_tasks = <<>> /\ cdm_tasks = <<>>
    /\ roster_calls = <<>>
    /\ resolved = [done |-> FALSE, icao |-> "", url |-> "", proto |-> kProtoInvalid,
                   again |-> FALSE, memo |-> "", calls |-> <<>>]
    /\ last = Event("none", "none", "none", "none", {})

\* user, dflt: the contents of cdm_cfg.json and cdm_cfg.default.json; prefs:
\* the pilot id of the preferences file.  The event records the two files,
\* which of them CdmInit was called for, what each call returned and the
\* server list each call left.
XPluginStart(user, dflt, prefs) ==
    /\ pstate = "unloaded"
    /\ LET u == CdmInit(user, servers)
           d == CdmInit(dflt, u.servers)
           ok == CfgLoaded(u.ret, d.ret)
           after == IF u.ret THEN u.servers ELSE d.servers
       IN  /\ servers' = after
           /\ roster_calls' = [i \in 1..Len(after) |-> 0]
           /\ resolved' = [resolved EXCEPT !.calls = [i \in 1..Len(after) |-> 0]]
           /\ pstate' = IF ok THEN "running" ELSE "disabled"
           /\ pilot_id' = IF ok THEN prefs ELSE pilot_id
           /\ last' = [op |-> "XPluginStart", ofp |-> "none", cdm |-> "none",
                       fetch |-> "none", wrote |-> IF ok THEN {"pilot_id"} ELSE {},
                       user |-> user, dflt |-> dflt,
                       user_ret |-> u.ret, user_servers |-> u.servers,
                       dflt_read |-> ~u.ret, dflt_ret |-> ~u.ret /\ d.ret,
                       ret |-> IF ok THEN 1 ELSE 0]
    /\ UNCHANGED <<cdm_airport, callsign, timevars, icao_c, url_c, proto_c,
                   ofpvars, cdmvars, xpvars>>

(***************************************************************************)
(* sbh.cpp: the two polls.  Each is the function's effect on the variables *)
(* it touches, from the values they have when it is called.                *)
(***************************************************************************)
\* a comparison that takes the url for a compared field
CdmUnchangedWithUrl(old, new) ==
    /\ old # NULL
    /\ old.url = new.url
    /\ old.status = new.status /\ old.tobt = new.tobt /\ old.tsat = new.tsat
    /\ old.runway = new.runway /\ old.sid = new.sid

\* a comparison that leaves out tobt
CdmUnchangedNoTobt(old, new) ==
    /\ old # NULL
    /\ old.status = new.status /\ old.tsat = new.tsat
    /\ old.runway = new.runway /\ old.sid = new.sid

\* F_EQ over the compared fields
CdmUnchanged(old, new) ==
    /\ old # NULL
    /\ old.status = new.status /\ old.tobt = new.tobt /\ old.tsat = new.tsat
    /\ old.runway = new.runway /\ old.sid = new.sid

\* the record OfpCheckAsyncDownload publishes from the one the task left
OfpActivate(info) ==
    IF info.status # "Success" THEN info
    ELSE [info EXCEPT !.altitude = itoa(CDiv(atoi(info.altitude), 100))]

OfpCheckAsyncDownload(now_) ==
    LET cur == [ret |-> FALSE, threw |-> FALSE, ev |-> "none",
                ofp_attempt |-> ofp_attempt,
                ofp_download_active |-> ofp_download_active,
                ofp_download_future |-> ofp_download_future,
                ofp_info |-> ofp_info, ofp_info_new |-> ofp_info_new,
                cdm_airport |-> cdm_airport,
                cdm_next_poll_ts |-> cdm_next_poll_ts, air_time |-> air_time]
    IN  IF ~ofp_download_active THEN cur
        ELSE IF ofp_download_future \notin {"ready", "exception"}
        THEN [cur EXCEPT !.ret = TRUE, !.ev = "running"]
        ELSE IF ofp_download_future = "exception"
        THEN [cur EXCEPT !.threw = TRUE, !.ev = "threw",
                         !.ofp_attempt = ofp_info_new.status,
                         !.ofp_download_active = FALSE,
                         !.ofp_download_future = "invalid"]
        ELSE IF ofp_info_new.status # "Success"
        THEN [cur EXCEPT !.ev = "failure",
                         !.ofp_attempt = ofp_info_new.status,
                         !.ofp_download_active = FALSE,
                         !.ofp_download_future = "invalid",
                         !.ofp_info = OfpActivate(ofp_info_new),
                         !.ofp_info_new = NULL]
        ELSE [cur EXCEPT !.ev = "success",
                         !.ofp_attempt = ofp_info_new.status,
                         !.ofp_download_active = FALSE,
                         !.ofp_download_future = "invalid",
                         !.ofp_info = OfpActivate(ofp_info_new),
                         !.ofp_info_new = NULL,
                         !.cdm_airport = ofp_info_new.origin,
                         !.cdm_next_poll_ts = now_,
                         !.air_time = 0]

\* a CDM poll that stamps the next poll time before it looks at the future,
\* and so also while the task runs
CdmCheckStampFirst(now_, poll_ts) ==
    [ret |-> cdm_download_active,
     ev |-> IF cdm_download_active THEN "running" ELSE "none",
     cdm_download_active |-> cdm_download_active,
     cdm_download_future |-> cdm_download_future,
     cdm_info |-> cdm_info, cdm_info_new |-> cdm_info_new,
     cdm_seqno |-> cdm_seqno,
     cdm_next_poll_ts |-> IF cdm_download_active THEN now_ + kCdmPollInterval
                          ELSE poll_ts]

\* poll_ts: cdm_next_poll_ts as the OFP poll before it left it
CdmCheckAsyncDownload(now_, poll_ts) ==
    LET cur == [ret |-> FALSE, ev |-> "none",
                cdm_download_active |-> cdm_download_active,
                cdm_download_future |-> cdm_download_future,
                cdm_info |-> cdm_info, cdm_info_new |-> cdm_info_new,
                cdm_seqno |-> cdm_seqno, cdm_next_poll_ts |-> poll_ts]
    IN  IF ~cdm_download_active THEN cur
        ELSE IF cdm_download_future # "ready"
        THEN [cur EXCEPT !.ret = TRUE, !.ev = "running"]
        ELSE IF CdmUnchanged(cdm_info, cdm_info_new)
        THEN [cur EXCEPT !.ev = "discarded",
                         !.cdm_download_active = FALSE,
                         !.cdm_download_future = "invalid",
                         !.cdm_next_poll_ts = now_ + kCdmPollInterval,
                         !.cdm_info_new = NULL]
        ELSE [cur EXCEPT !.ev = "published",
                         !.cdm_download_active = FALSE,
                         !.cdm_download_future = "invalid",
                         !.cdm_next_poll_ts = now_ + kCdmPollInterval,
                         !.cdm_info = [cdm_info_new EXCEPT !.seqno = cdm_seqno + 1],
                         !.cdm_info_new = NULL,
                         !.cdm_seqno = cdm_seqno + 1]

\* a CdmPollEnabled() that does not look at air_time
CdmPollEnabledNoGate(ofp_active, air, connected, xp_callsign, eng_running) ==
    LET cur == [ret |-> FALSE, callsign |-> callsign,
                xpilot_connected |-> xpilot_connected, wrote |-> {}]
        seen == IF fake_xpilot THEN cur
                ELSE [cur EXCEPT !.callsign = IF connected /\ ~xpilot_connected
                                              THEN xp_callsign ELSE callsign,
                                 !.wrote = IF connected /\ ~xpilot_connected
                                           THEN {"callsign"} ELSE {},
                                 !.xpilot_connected = connected]
    IN  IF ~xpilot_status_dr THEN cur
        ELSE IF ofp_active THEN cur
        ELSE IF ~fake_xpilot /\ ~connected THEN seen
        ELSE IF eng_running THEN seen
        ELSE [seen EXCEPT !.ret = TRUE]

\* a CdmPollEnabled() that does not look at ofp_download_active
CdmPollEnabledAnyOfp(ofp_active, air, connected, xp_callsign, eng_running) ==
    LET cur == [ret |-> FALSE, callsign |-> callsign,
                xpilot_connected |-> xpilot_connected, wrote |-> {}]
        seen == IF fake_xpilot THEN cur
                ELSE [cur EXCEPT !.callsign = IF connected /\ ~xpilot_connected
                                              THEN xp_callsign ELSE callsign,
                                 !.wrote = IF connected /\ ~xpilot_connected
                                           THEN {"callsign"} ELSE {},
                                 !.xpilot_connected = connected]
    IN  IF ~xpilot_status_dr THEN cur
        ELSE IF ~fake_xpilot /\ ~connected THEN seen
        ELSE IF eng_running THEN seen
        ELSE IF air > kAirtimeForArrival THEN seen
        ELSE [seen EXCEPT !.ret = TRUE]

\* CdmPollEnabled() with ofp_download_active and air_time as the flight loop
\* has left them and the datarefs it reads: xpilot/login/status,
\* xpilot/login/callsign, any of ENGN_running
CdmPollEnabled(ofp_active, air, connected, xp_callsign, eng_running) ==
    LET cur == [ret |-> FALSE, callsign |-> callsign,
                xpilot_connected |-> xpilot_connected, wrote |-> {}]
        seen == IF fake_xpilot THEN cur
                ELSE [cur EXCEPT !.callsign = IF connected /\ ~xpilot_connected
                                              THEN xp_callsign ELSE callsign,
                                 !.wrote = IF connected /\ ~xpilot_connected
                                           THEN {"callsign"} ELSE {},
                                 !.xpilot_connected = connected]
    IN  IF ~xpilot_status_dr THEN cur
        ELSE IF ofp_active THEN cur
        ELSE IF ~fake_xpilot /\ ~connected THEN seen
        ELSE IF eng_running THEN seen
        ELSE IF air > kAirtimeForArrival THEN seen
        ELSE [seen EXCEPT !.ret = TRUE]

\* OfpIntAcc / CdmIntAcc: the int field of the cached record, 0 without one
OfpIntAcc(info, field) == IF info = NULL THEN 0 ELSE info[field]

CdmIntAcc(info, field) == IF info = NULL THEN 0 ELSE info[field]

\* what an accessor call that copies nothing leaves: the value returned and
\* an untouched buffer
NoData(ret) == [n |-> ret, values |-> "", nul |-> FALSE]

\* a GenericDataAcc that offers the string without a trailing 0
GenericDataAccNoNul(data, values, ofs, n) ==
    LET len == Len(data)
    IN  IF ~values THEN NoData(len)
        ELSE IF n <= 0 \/ ofs < 0 \/ ofs >= len THEN NoData(0)
        ELSE LET m == IF n < len - ofs THEN n ELSE len - ofs
             IN  [n |-> m, values |-> SubSeq(data, ofs + 1, ofs + m), nul |-> FALSE]

\* GenericDataAcc(data, values, ofs, n).  values: a buffer is given (not the
\* null pointer of a length query).  The result is the value returned (n),
\* the characters of the string copied to the buffer (values) and whether the
\* trailing 0 of c_str() was copied after them (nul): memcpy copies the m bytes
\* ofs .. ofs+m-1 of the len bytes of c_str(), the last of which is the 0.
GenericDataAcc(data, values, ofs, n) ==
    LET len == Len(data) + 1
    IN  IF ~values THEN NoData(len)
        ELSE IF n <= 0 \/ ofs < 0 \/ ofs >= len THEN NoData(0)
        ELSE LET m == IF n < len - ofs THEN n ELSE len - ofs
                 last_chr == IF ofs + m < len THEN ofs + m ELSE len - 1
             IN  [n |-> m, values |-> SubSeq(data, ofs + 1, last_chr),
                  nul |-> ofs + m = len]

\* an OfpDataAcc that serves the empty string while there is no record
OfpDataAccEmpty(info, field, values, ofs, n) ==
    IF info = NULL \/ info.seqno = 0 THEN GenericDataAcc("", values, ofs, n)
    ELSE GenericDataAcc(info[field], values, ofs, n)

\* OfpDataAcc / CdmDataAcc: 0 is returned without a cached record or for one
\* whose seqno is 0
OfpDataAcc(info, field, values, ofs, n) ==
    IF info = NULL \/ info.seqno = 0 THEN NoData(0)
    ELSE GenericDataAcc(info[field], values, ofs, n)

CdmDataAcc(info, field, values, ofs, n) ==
    IF info = NULL \/ info.seqno = 0 THEN NoData(0)
    ELSE GenericDataAcc(info[field], values, ofs, n)

\* the two calls of a consumer that reads a whole field: the length query,
\* then the copy of that many bytes from offset 0
OfpReadField(info, field) ==
    OfpDataAcc(info, field, TRUE, 0, OfpDataAcc(info, field, FALSE, 0, 0).n)

CdmReadField(info, field) ==
    CdmDataAcc(info, field, TRUE, 0, CdmDataAcc(info, field, FALSE, 0, 0).n)

\* what that consumer gets of a field holding data
WholeField(data) == [n |-> Len(data) + 1, values |-> data, nul |-> TRUE]

\* FetchOfp() without its test of the in-flight flag
FetchOfpUnguarded == pilot_id # ""

\* FetchCdm() without its test of the in-flight flag
FetchCdmUnguarded(active) == pilot_id # ""

\* FetchOfp() / FetchCdm() get past their two early returns
FetchOfpStarts == pilot_id # "" /\ ~ofp_download_active

FetchCdmStarts(active) == ~active /\ pilot_id # ""

RemoveAt(seq, i) == SubSeq(seq, 1, i - 1) \o SubSeq(seq, i + 1, Len(seq))

(***************************************************************************)
(* Handlers of the driving thread.                                         *)
(***************************************************************************)
\* the body of FetchOfp(), called by handler op
FetchOfpBody(op) ==
    /\ IF FetchOfpStarts
       THEN /\ ofp_download_future' = "pending"
            /\ ofp_tasks' = Append(ofp_tasks, "start")
            /\ ofp_download_active' = TRUE
       ELSE UNCHANGED <<ofp_download_future, ofp_tasks, ofp_download_active>>
    /\ last' = Event(op, "none", "none",
                     IF FetchOfpStarts THEN "started"
                     ELSE IF pilot_id = "" THEN "nopilot" ELSE "ignored",
                     {})

\* the "Fetch OFP" button of MainWidgetCb and the sbh/fetch command
FetchOfp ==
    /\ pstate = "running"
    /\ FetchOfpBody("FetchOfp")
    /\ UNCHANGED <<pstate, idvars, timevars, dirvars, cdmvars, xpvars,
                   ofp_info, ofp_info_new, seqno, ofp_attempt>>

\* XPLM_MSG_PLANE_LOADED for the user's plane; installed: xPilot's datarefs
\* are found
XPluginReceiveMessage(installed) ==
    /\ pstate = "running"
    /\ IF ~init_done
       THEN init_done' = TRUE /\ xpilot_status_dr' = installed
       ELSE UNCHANGED <<init_done, xpilot_status_dr>>
    /\ FetchOfpBody("XPluginReceiveMessage")
    /\ UNCHANGED <<pstate, idvars, timevars, dirvars, cdmvars, xpilot_connected,
                   fake_xpilot, ofp_info, ofp_info_new, seqno, ofp_attempt>>

\* the OK button of the configuration widget
ConfWidgetCb(id) ==
    /\ pstate = "running"
    /\ pilot_id' = id
    /\ last' = Event("ConfWidgetCb", "none", "none", "none", {"pilot_id"})
    /\ UNCHANGED <<pstate, cdm_airport, callsign, timevars, dirvars, ofpvars,
                   cdmvars, xpvars>>

\* one flight loop callback.  dt: the time since the last one; gear0: the
\* gear normal force is 0; connected, xp_callsign: xPilot's datarefs;
\* eng_running: an engine is running
FlightLoopCb(dt, gear0, connected, xp_callsign, eng_running) ==
    /\ pstate = "running"
    /\ LET now1 == now + dt
           o == OfpCheckAsyncDownload(now1)
           c == CdmCheckAsyncDownload(now1, o.cdm_next_poll_ts)
           air1 == IF gear0 THEN o.air_time + dt ELSE o.air_time
           e == CdmPollEnabled(o.ofp_download_active, air1, connected,
                               xp_callsign, eng_running)
           due == now1 > c.cdm_next_poll_ts /\ e.ret
           start == due /\ FetchCdmStarts(c.cdm_download_active)
       IN  /\ now' = now1
           /\ ticks' = ticks + 1
           /\ ofp_download_active' = o.ofp_download_active
           /\ ofp_download_future' = o.ofp_download_future
           /\ ofp_info' = o.ofp_info
           /\ ofp_info_new' = o.ofp_info_new
           /\ cdm_airport' = o.cdm_airport
           /\ ofp_attempt' = o.ofp_attempt
           /\ IF o.threw
              THEN \* the exception of future::get() leaves the callback into
                   \* the host, which ends the process or unwinds and goes on
                   /\ pstate' \in {"crashed", "running"}
                   /\ last' = Event("FlightLoopCb", o.ev, "none", "none", {})
                   /\ UNCHANGED <<air_time, cdm_next_poll_ts, cdmvars, callsign,
                                  xpilot_connected>>
              ELSE /\ pstate' = pstate
                   /\ air_time' = air1
                   /\ cdm_next_poll_ts' = IF due THEN kCdmNoPoll
                                          ELSE c.cdm_next_poll_ts
                   /\ cdm_download_active' = (c.cdm_download_active \/ start)
                   /\ cdm_download_future' = IF start THEN "pending"
                                             ELSE c.cdm_download_future
                   /\ cdm_tasks' = IF start
                                   THEN Append(cdm_tasks,
                                               [pc |-> "start", url |-> "",
                                                proto |-> kProtoInvalid])
                                   ELSE cdm_tasks
                   /\ cdm_info' = c.cdm_info
                   /\ cdm_info_new' = c.cdm_info_new
                   /\ cdm_seqno' = c.cdm_seqno
                   /\ callsign' = e.callsign
                   /\ xpilot_connected' = e.xpilot_connected
                   /\ last' = Event("FlightLoopCb", o.ev, c.ev,
                                    IF ~due THEN "none"
                                    ELSE IF start THEN "started"
                                    ELSE IF c.cdm_download_active THEN "ignored"
                                    ELSE "nopilot",
                                    (IF o.ev = "success" THEN {"cdm_airport"} ELSE {})
                                        \cup e.wrote)
    /\ UNCHANGED <<pilot_id, dirvars, ofp_tasks, seqno, xpilot_status_dr,
                   init_done, fake_xpilot>>

\* a loop of XPluginStop that waits for the OFP fetch only
StopWaitsForOfpOnly(ofp_running, cdm_running) == ofp_running

\* the condition of the loop of XPluginStop, from what the two polls return
StopWaits(ofp_running, cdm_running) == ofp_running \/ cdm_running

\* XPLMGetDatab(sbh/<field>, values, ofs, n) of a consumer: the host calls
\* OfpDataAcc on the driving thread.  The event records the call and its
\* result.
XPLMGetDatab(field, values, ofs, n) ==
    /\ pstate = "running"
    /\ last' = [op |-> "OfpDataAcc", ofp |-> "none", cdm |-> "none",
                fetch |-> "none", wrote |-> {},
                field |-> field, values |-> values, ofs |-> ofs, n |-> n,
                res |-> OfpDataAcc(ofp_info, field, values, ofs, n)]
    /\ UNCHANGED progvars

\* ofp_get_parse(pilot_id, &ofp_info) of the pseudo-XML version, first half:
\* HttpGet has answered with reply.  The model follows one call.
LegacyHttpGet(reply) ==
    /\ pstate = "running"
    /\ last.op = "XPluginStart"
    /\ last' = [op |-> "HttpGet", ofp |-> "none", cdm |-> "none",
                fetch |-> "none", wrote |-> {}, reply |-> reply]
    /\ UNCHANGED progvars

\* second half: the reply is parsed.  The event records the reply, the value
\* returned and the record.
ofp_get_parse ==
    /\ pstate = "running"
    /\ last.op = "HttpGet"
    /\ LET r == LegacyParse(last.reply)
       IN  last' = [op |-> "ofp_get_parse", ofp |-> "none", cdm |-> "none",
                    fetch |-> "none", wrote |-> {},
                    reply |-> last.reply, res |-> r.res, info |-> r.info]
    /\ UNCHANGED progvars

\* one pass of the loop of XPluginStop(): while (OfpCheckAsyncDownload() ||
\* CdmCheckAsyncDownload()) sleep.  The first pass enters the loop, the pass
\* that finds both polls false leaves it; an exception of future::get()
\* leaves XPluginStop into the host, which ends the process or goes on
\* unloading the plugin.
XPluginStop ==
    /\ pstate \in {"running", "stopping"}
    /\ LET o == OfpCheckAsyncDownload(now)
           c == CdmCheckAsyncDownload(now, o.cdm_next_poll_ts)
           polled == ~o.ret /\ ~o.threw
       IN  /\ ofp_download_active' = o.ofp_download_active
           /\ ofp_download_future' = o.ofp_download_future
           /\ ofp_info' = o.ofp_info
           /\ ofp_info_new' = o.ofp_info_new
           /\ cdm_airport' = o.cdm_airport
           /\ ofp_attempt' = o.ofp_attempt
           /\ air_time' = o.air_time
           /\ IF polled
              THEN /\ cdm_download_active' = c.cdm_download_active
                   /\ cdm_download_future' = c.cdm_download_future
                   /\ cdm_info' = c.cdm_info
                   /\ cdm_info_new' = c.cdm_info_new
                   /\ cdm_seqno' = c.cdm_seqno
                   /\ cdm_next_poll_ts' = c.cdm_next_poll_ts
                   /\ pstate' = IF StopWaits(o.ret, c.ret) THEN "stopping"
                                ELSE "stopped"
                   /\ last' = Event("XPluginStop", o.ev, c.ev, "none",
                                    IF o.ev = "success" THEN {"cdm_airport"} ELSE {})
              ELSE /\ UNCHANGED <<cdm_download_active, cdm_download_future,
                                  cdm_info, cdm_info_new, cdm_seqno>>
                   /\ cdm_next_poll_ts' = o.cdm_next_poll_ts
                   /\ IF o.threw THEN pstate' \in {"crashed", "stopped"}
                      ELSE pstate' = "stopping"
                   /\ last' = Event("XPluginStop", o.ev, "none", "none", {})
    /\ UNCHANGED <<pilot_id, callsign, now, ticks, dirvars, ofp_tasks, seqno,
                   cdm_tasks, xpvars>>

(***************************************************************************)
(* The background tasks: the lambdas of FetchOfp() and FetchCdm().         *)
(***************************************************************************)
\* OfpGetParse up to HttpGet: the url is built from pilot_id, the slot gets
\* a fresh record
OfpTaskBegin ==
    /\ pstate # "crashed"
    /\ \E i \in 1..Len(ofp_tasks) :
          /\ ofp_tasks[i] = "start"
          /\ ofp_tasks' = [ofp_tasks EXCEPT ![i] = "fetch"]
    /\ ofp_info_new' = NewOfpInfo
    /\ UNCHANGED <<pstate, idvars, timevars, dirvars, cdmvars, xpvars, last,
                   ofp_download_active, ofp_info, ofp_download_future, seqno,
                   ofp_attempt>>

\* OfpGetParse from the reply of HttpGet to its end
OfpTaskFinish(reply) ==
    /\ pstate # "crashed"
    /\ \E i \in 1..Len(ofp_tasks) :
          /\ ofp_tasks[i] = "fetch"
          /\ ofp_tasks' = RemoveAt(ofp_tasks, i)
    /\ LET r == OfpGetParse(reply, seqno)
       IN  /\ ofp_info_new' = r.info
           /\ seqno' = r.seqno
           /\ ofp_download_future' = IF r.threw THEN "exception" ELSE "ready"
    /\ UNCHANGED <<pstate, idvars, timevars, dirvars, cdmvars, xpvars, last,
                   ofp_download_active, ofp_info, ofp_attempt>>

\* the statics FindUrl works on
Directory ==
    [servers |-> servers, icao_c |-> icao_c, url_c |-> url_c,
     proto_c |-> proto_c, calls |-> roster_calls]

\* what the call FindUrl(icao) with outcome r leaves in the statics
FindUrlReturns(icao, r) ==
    /\ servers' = r.dir.servers
    /\ icao_c' = r.dir.icao_c
    /\ url_c' = r.dir.url_c
    /\ proto_c' = r.dir.proto_c
    /\ roster_calls' = r.dir.calls
    /\ resolved' = Resolution(icao, r, Directory)

\* CdmGetParse up to the request for the flight: the slot gets a fresh
\* record, FindUrl resolves cdm_airport; replies[i] is what server i answers
\* to a roster request
CdmTaskResolve(replies) ==
    /\ pstate # "crashed"
    /\ \E i \in 1..Len(cdm_tasks) :
          /\ cdm_tasks[i].pc = "start"
          /\ LET r == FindUrl(cdm_airport, Directory, replies)
             IN  /\ FindUrlReturns(cdm_airport, r)
                 /\ IF r.url = ""
                    THEN /\ cdm_info_new' = [NewCdmInfo EXCEPT
                                                !.status = "Feed for airport not found"]
                         /\ cdm_tasks' = RemoveAt(cdm_tasks, i)
                         /\ cdm_download_future' = "ready"
                    ELSE /\ cdm_info_new' = [NewCdmInfo EXCEPT !.url = r.url]
                         /\ cdm_tasks' = [cdm_tasks EXCEPT
                                             ![i] = [pc |-> "fetch", url |-> r.url,
                                                     proto |-> r.proto]]
                         /\ UNCHANGED cdm_download_future
    /\ UNCHANGED <<pstate, idvars, timevars, ofpvars, xpvars, last,
                   cdm_download_active, cdm_info, cdm_seqno>>

\* CdmGetParse from the reply to the request for the flight to its end
CdmTaskFinish(reply) ==
    /\ pstate # "crashed"
    /\ \E i \in 1..Len(cdm_tasks) :
          /\ cdm_tasks[i].pc = "fetch"
          /\ cdm_info_new' = CdmGetFlight(cdm_tasks[i].url, cdm_tasks[i].proto,
                                          callsign, reply, NewCdmInfo)
          /\ cdm_tasks' = RemoveAt(cdm_tasks, i)
    /\ cdm_download_future' = "ready"
    /\ UNCHANGED <<pstate, idvars, timevars, dirvars, ofpvars, xpvars, last,
                   cdm_download_active, cdm_info, cdm_seqno>>

(***************************************************************************)
(* The plugin under every interleaving of its handlers and tasks, with the *)
(* replies that decide how a fetch ends: a transport failure, the service's *)
(* error reply, a document that makes OfpGetParse throw, a complete flight *)
(* plan.                                                                   *)
(***************************************************************************)
CoordOfpReplies ==
    {HttpFail, HttpJson(OfpUpstreamError), HttpJson(JArr(<<>>)),
     HttpJson(GoodOfp("LEBL"))}

CoordFlightReplies ==
    {HttpFail,
     RPuigFeed(<<RPuigFlight("EWG74A", "0945", "0950", "24L", "SENIA4Q")>>)}

Next ==
    \/ /\ ticks < MaxTicks
       /\ \E dt \in TickSteps, connected \in BOOLEAN, xp_callsign \in Callsigns,
             eng_running \in BOOLEAN :
             FlightLoopCb(dt, FALSE, connected, xp_callsign, eng_running)
    \/ FetchOfp
    \/ \E installed \in BOOLEAN : XPluginReceiveMessage(installed)
    \/ \E id \in PilotIds : ConfWidgetCb(id)
    \/ XPluginStop
    \/ OfpTaskBegin
    \/ \E reply \in CoordOfpReplies : OfpTaskFinish(reply)
    \/ \E replies \in RosterReplies : CdmTaskResolve(replies)
    \/ \E reply \in CoordFlightReplies : CdmTaskFinish(reply)

Spec == Init /\ [][Next]_vars

\* The plugin with what the code's scheduling gives: every background task
\* runs to its end (HttpGet returns within its timeout of 10 s), and the loop
\* of XPluginStop, once entered, makes its next pass after its sleep.
StopLoopPass == pstate = "stopping" /\ XPluginStop

SpecLive ==
    /\ Init /\ [][Next]_vars
    /\ WF_vars(StopLoopPass)
    /\ WF_vars(OfpTaskBegin)
    /\ WF_vars(\E reply \in CoordOfpReplies : OfpTaskFinish(reply))
    /\ WF_vars(\E replies \in RosterReplies : CdmTaskResolve(replies))
    /\ WF_vars(\E reply \in CoordFlightReplies : CdmTaskFinish(reply))

(***************************************************************************)
(* The CDM side under every reply of the model, for a pilot whose id is    *)
(* set and whose xPilot is installed and connected.                        *)
(***************************************************************************)
InitCdm == Init /\ pilot_id = "4711" /\ ~fake_xpilot

NextCdm ==
    \/ /\ ticks < MaxCdmTicks
       /\ \E dt \in TickSteps, xp_callsign \in Callsigns :
             FlightLoopCb(dt, FALSE, TRUE, xp_callsign, FALSE)
    \/ FetchOfp
    \/ XPluginReceiveMessage(TRUE)
    \/ ConfWidgetCb("4711")
    \/ XPluginStop
    \/ OfpTaskBegin
    \/ \E reply \in {HttpJson(GoodOfp(a)) : a \in Airports} : OfpTaskFinish(reply)
    \/ \E replies \in RosterReplies : CdmTaskResolve(replies)
    \/ \E reply \in FlightReplies : CdmTaskFinish(reply)

SpecCdm == InitCdm /\ [][NextCdm]_vars

(***************************************************************************)
(* The server directory under every sequence of resolutions: CdmGetParse   *)
(* calls FindUrl with the origin of the flight plan, one call at a time,   *)
(* and each server answers a roster request with a transport failure, with *)
(* JSON of another shape or with its roster.                               *)
(***************************************************************************)
\* the codes resolved: ESSA is in no roster
DirCodes == {"LEBL", "EKCH", "ESSA"}

\* a roster of the second server that covers an airport of the first
ScandWideRoster ==
    HttpJson(JArr(<<JObj([icao |-> JStr("EKCH")]), JObj([icao |-> JStr("LEBL")])>>))

\* well-formed JSON that is no roster: an object without "airports", whose
\* members are no airport descriptors
NoRoster == HttpJson(JObj([message |-> JStr("maintenance")]))

DirRosterReplies ==
    {<<r1, r2>> : r1 \in {HttpFail, NoRoster, SpainRoster},
                  r2 \in {HttpFail, NoRoster, ScandWideRoster}}

\* line 274 of CdmGetParse: FindUrl(arpt_icao)
FindUrlCall(icao, replies) ==
    /\ \A i \in DOMAIN roster_calls : roster_calls[i] < MaxRosterCalls
    /\ FindUrlReturns(icao, FindUrl(icao, Directory, replies))
    /\ UNCHANGED <<pstate, idvars, timevars, ofpvars, cdmvars, xpvars, last>>

InitDir == Init /\ pilot_id = "4711" /\ ~fake_xpilot

NextDir == \E icao \in DirCodes, replies \in DirRosterReplies : FindUrlCall(icao, replies)

SpecDir == InitDir /\ [][NextDir]_vars

(***************************************************************************)
(* The start of the plugin under every pair of configuration files, and    *)
(* what the host can make the started plugin do up to its first CDM fetch. *)
(***************************************************************************)
MaxCfgTicks == 3

NextCfg ==
    \/ \E user \in UserCfgFiles, dflt \in DefaultCfgFiles, prefs \in PilotIds :
          XPluginStart(user, dflt, prefs)
    \/ /\ ticks < MaxCfgTicks
       /\ \E xp_callsign \in Callsigns : FlightLoopCb(100, FALSE, TRUE, xp_callsign, FALSE)
    \/ FetchOfp
    \/ XPluginReceiveMessage(TRUE)
    \/ OfpTaskBegin
    \/ OfpTaskFinish(HttpJson(GoodOfp("LEBL")))

SpecCfg == InitUnloaded /\ [][NextCfg]_vars

(***************************************************************************)
(* A consumer reading OFP fields, by length query and by copy at every     *)
(* offset and count around the ends of the field, while a fetch of a       *)
(* flight plan or a failed one is collected.                               *)
(***************************************************************************)
MaxReadTicks == 1

\* fields of length 0 (sid of the model's flight plan), 4 and 7
ReadFields == {"sid", "origin", "status"}
ReadOfs == {-1, 0, 1, 4, 5, 7, 8}
ReadCounts == {-1, 0, 1, 4, 5, 8, 64}

NextRead ==
    \/ /\ ticks < MaxReadTicks
       /\ \E xp_callsign \in Callsigns : FlightLoopCb(100, FALSE, TRUE, xp_callsign, FALSE)
    \/ XPluginReceiveMessage(TRUE)
    \/ OfpTaskBegin
    \/ \E reply \in {HttpFail, HttpJson(GoodOfp("LEBL"))} : OfpTaskFinish(reply)
    \/ \E field \in ReadFields :
          \/ XPLMGetDatab(field, FALSE, 0, 0)
          \/ \E ofs \in ReadOfs, n \in ReadCounts : XPLMGetDatab(field, TRUE, ofs, n)

SpecRead == InitCdm /\ [][NextRead]_vars

(***************************************************************************)
(* OfpGetParse under every reply of the parser's input set, each result    *)
(* collected by the flight loop.                                           *)
(***************************************************************************)
MaxParseTicks == 2

NextParse ==
    \/ /\ ticks < MaxParseTicks
       /\ \E xp_callsign \in Callsigns : FlightLoopCb(100, FALSE, TRUE, xp_callsign, FALSE)
    \/ FetchOfp
    \/ OfpTaskBegin
    \/ \E reply \in ParseReplies : OfpTaskFinish(reply)

SpecParse == InitCdm /\ [][NextParse]_vars

(***************************************************************************)
(* A flight out of EKCH, whose vACDM server answers with every pair of     *)
(* timestamps of the model.                                                *)
(***************************************************************************)
MaxTimeTicks == 3

NextTime ==
    \/ /\ ticks < MaxTimeTicks
       /\ \E xp_callsign \in Callsigns : FlightLoopCb(100, FALSE, TRUE, xp_callsign, FALSE)
    \/ XPluginReceiveMessage(TRUE)
    \/ OfpTaskBegin
    \/ OfpTaskFinish(HttpJson(GoodOfp("EKCH")))
    \/ \E replies \in RosterReplies : CdmTaskResolve(replies)
    \/ \E reply \in TimeReplies : CdmTaskFinish(reply)

SpecTime == InitCdm /\ [][NextTime]_vars

(***************************************************************************)
(* The pseudo-XML parser under every document of the model.                *)
(***************************************************************************)
NextXml ==
    \/ \E reply \in {XmlFail} \cup {XmlBody(d) : d \in XmlDocs} : LegacyHttpGet(reply)
    \/ ofp_get_parse

SpecXml == InitCdm /\ [][NextXml]_vars

(***************************************************************************)
(* The timing of the CDM polls: flight loop callbacks 50 s apart on the    *)
(* ground and 200 s apart in the air, with xPilot connected and the        *)
(* engines off, while flight plans are fetched with every load of the      *)
(* plane and the pilot id may be cleared.                                  *)
(***************************************************************************)
\* the time since the last callback and whether the gear normal force is 0
PollSteps == {<<50, FALSE>>, <<200, TRUE>>}

MaxPollTicks == 5

PollOfpReplies == {HttpFail, HttpJson(GoodOfp("LEBL"))}

PollFlightReplies ==
    {RPuigFeed(<<RPuigFlight("EWG74A", "0945", "0950", "24L", "SENIA4Q")>>)}

NextPoll ==
    \/ /\ ticks < MaxPollTicks
       /\ \E in \in PollSteps : FlightLoopCb(in[1], in[2], TRUE, "EWG74A", FALSE)
    \/ XPluginReceiveMessage(TRUE)
    \/ ConfWidgetCb("")
    \/ OfpTaskBegin
    \/ \E reply \in PollOfpReplies : OfpTaskFinish(reply)
    \/ \E replies \in RosterReplies : CdmTaskResolve(replies)
    \/ \E reply \in PollFlightReplies : CdmTaskFinish(reply)

SpecPoll == InitCdm /\ [][NextPoll]_vars

(***************************************************************************)
(* Fetch and poll: single flight, the poll of a running fetch, the result  *)
(* slot, the variables a task shares with the driving thread.              *)
(***************************************************************************)
\* a step of a background task of either kind
OfpTaskStep == OfpTaskBegin \/ \E reply \in OfpReplies : OfpTaskFinish(reply)

CdmTaskStep ==
    \/ \E replies \in RosterReplies : CdmTaskResolve(replies)
    \/ \E reply \in FlightReplies : CdmTaskFinish(reply)

\* C1: single flight per data kind.  In every reachable state at most one
\* OFP task and at most one CDM task exist.  A FetchOfp request made while
\* ofp_download_active is set changes nothing (the button and the command:
\* no variable of the plugin; the plane-loaded message: nothing but its own
\* init_done and xpilot_status_dr), and a flight loop callback that finds the
\* CDM fetch running leaves task, flag, future, slot, cached record and
\* sequence of the CDM side as they are, whether or not it calls FetchCdm.
C1_SingleFlight ==
    /\ [](Len(ofp_tasks) <= 1 /\ Len(cdm_tasks) <= 1)
    /\ [][/\ (FetchOfp /\ ofp_download_active) => UNCHANGED progvars
          /\ ((\E installed \in BOOLEAN : XPluginReceiveMessage(installed))
                 /\ ofp_download_active)
                => UNCHANGED <<pstate, idvars, timevars, dirvars, ofpvars, cdmvars,
                               xpilot_connected, fake_xpilot>>
          /\ (ticks' # ticks /\ cdm_download_active
                 /\ cdm_download_future = "pending")
                => UNCHANGED cdmvars]_vars

\* a flight loop callback has called FetchCdm while the CDM task was running
C1_Witness ==
    /\ last.op = "FlightLoopCb" /\ last.fetch = "ignored"
    /\ cdm_download_active /\ Len(cdm_tasks) = 1

\* C2: a poll made while the fetch of its kind is in flight and its task has
\* not completed returns true at once and leaves the in-flight flag, the
\* result slot, the cached record, the sequence counters and the CDM poll
\* timestamp as they are, at whatever time it is made.
C2_PollWhileRunning ==
    \A dt \in TickSteps \cup {0} :
        /\ (ofp_download_active /\ ofp_download_future = "pending") =>
              LET o == OfpCheckAsyncDownload(now + dt)
              IN  /\ o.ret /\ ~o.threw
                  /\ o.ofp_download_active
                  /\ o.ofp_download_future = ofp_download_future
                  /\ o.ofp_info_new = ofp_info_new
                  /\ o.ofp_info = ofp_info
                  /\ o.cdm_airport = cdm_airport
                  /\ o.air_time = air_time
                  /\ o.cdm_next_poll_ts = cdm_next_poll_ts
        /\ (cdm_download_active /\ cdm_download_future = "pending") =>
              LET c == CdmCheckAsyncDownload(now + dt, cdm_next_poll_ts)
              IN  /\ c.ret
                  /\ c.cdm_download_active
                  /\ c.cdm_download_future = cdm_download_future
                  /\ c.cdm_info_new = cdm_info_new
                  /\ c.cdm_info = cdm_info
                  /\ c.cdm_seqno = cdm_seqno
                  /\ c.cdm_next_poll_ts = cdm_next_poll_ts

\* a flight loop callback has polled both kinds while their tasks were running
C2_Witness ==
    /\ last.op = "FlightLoopCb" /\ last.ofp = "running" /\ last.cdm = "running"
    /\ ofp_download_active /\ ofp_download_future = "pending"
    /\ cdm_download_active /\ cdm_download_future = "pending"

\* C3: one-shot result handoff.  The slot of a kind changes only by a write
\* of the task made while the in-flight flag is set, or by the poll that has
\* seen the task complete, which empties it; and the poll that ends a fetch
\* (clears the flag) takes the slot, so every started fetch is taken once.
C3_OneShotHandoff ==
    [][/\ ofp_info_new' # ofp_info_new =>
             \/ OfpTaskStep /\ ofp_download_active
             \/ /\ ofp_download_future = "ready" /\ ofp_info_new' = NULL
                /\ ofp_info' = OfpActivate(ofp_info_new)
       /\ cdm_info_new' # cdm_info_new =>
             \/ CdmTaskStep /\ cdm_download_active
             \/ cdm_download_future = "ready" /\ cdm_info_new' = NULL
       /\ (ofp_download_active /\ ~ofp_download_active') => ofp_info_new' = NULL
       /\ (cdm_download_active /\ ~cdm_download_active') => cdm_info_new' = NULL]_vars

\* a poll has ended an OFP fetch without taking its result: the flag is
\* clear, the record of the task still in the slot
C3_Witness ==
    /\ last.ofp = "threw"
    /\ ~ofp_download_active /\ ofp_info_new # NULL

\* C4: a task and the driving thread share nothing but the result slot.
\* While an OFP task has yet to read pilot_id the driving thread does not
\* write it; while a CDM task runs the driving thread writes neither
\* cdm_airport nor callsign; a task's step leaves every variable the driving
\* thread reads, but the slot, as it is.
C4_NoSharedState ==
    [][/\ (\E i \in 1..Len(ofp_tasks) : ofp_tasks[i] = "start")
             => pilot_id' = pilot_id
       /\ cdm_tasks # <<>> => (cdm_airport' = cdm_airport /\ callsign' = callsign)
       /\ OfpTaskStep => UNCHANGED <<idvars, timevars, cdmvars, xpvars, ofp_info,
                                     ofp_download_active, pstate>>
       /\ CdmTaskStep => UNCHANGED <<idvars, timevars, ofpvars, xpvars, cdm_info,
                                     cdm_download_active, cdm_seqno, pstate>>]_vars

\* the driving thread has assigned cdm_airport while a CDM task was running
C4_Witness ==
    /\ "cdm_airport" \in last.wrote /\ last.cdm = "running"
    /\ cdm_tasks # <<>>

(***************************************************************************)
(* The cached OFP record over successful and failed fetches.               *)
(***************************************************************************)
\* a poll sees an OFP fetch complete and ends it
OfpFetchEnds == ofp_download_active /\ ~ofp_download_active'

\* C5: sbh/seqno, read from the cached record, is the same after a fetch
\* that completes with a failure as it was before.
C5_SeqnoKeptOnFailure ==
    [][(OfpFetchEnds /\ ofp_info_new.status # kSuccess)
          => OfpIntAcc(ofp_info', "seqno") = OfpIntAcc(ofp_info, "seqno")]_vars

\* a failed fetch after a successful one has left sbh/seqno at 0
C5_Witness ==
    /\ last.ofp = "failure" /\ seqno > 0
    /\ OfpIntAcc(ofp_info, "seqno") = 0

\* C6: when a fetch completes with status Success the cached record's
\* sequence is the sequence cached before plus 1 and its stale flag is clear,
\* whatever fetches came before.
C6_SeqnoPlusOneOnSuccess ==
    [][(OfpFetchEnds /\ ofp_info_new.status = kSuccess)
          => /\ OfpIntAcc(ofp_info', "seqno") = OfpIntAcc(ofp_info, "seqno") + 1
             /\ OfpIntAcc(ofp_info', "stale") = 0]_vars

\* C7: when a fetch completes with a failure after an earlier fetch has
\* succeeded, every data field of the cached record keeps its value and the
\* stale flag is set.
C7_FieldsKeptOnFailure ==
    [][(OfpFetchEnds /\ ofp_info_new.status # kSuccess /\ seqno > 0
           /\ ofp_info # NULL)
          => /\ ofp_info' # NULL
             /\ \A f \in OfpDataFields : ofp_info'[f] = ofp_info[f]
             /\ OfpIntAcc(ofp_info', "stale") # 0]_vars

\* a failed fetch after a successful one has left the cached origin empty
C7_Witness ==
    /\ last.ofp = "failure" /\ seqno > 0
    /\ ofp_info # NULL /\ ofp_info.origin = ""

\* C8: once a poll has seen an OFP fetch complete, sbh/stale is nonzero if
\* and only if the last fetch a poll saw complete did not end with status
\* Success.
C8_StaleIffLastFailed ==
    (pstate = "running" /\ ofp_attempt # "none")
        => (OfpIntAcc(ofp_info, "stale") # 0 <=> ofp_attempt # kSuccess)

\* the last fetch ended with a failure and sbh/stale reads 0
C8_Witness ==
    /\ pstate = "running" /\ ofp_attempt = "Invalid JSON data"
    /\ OfpIntAcc(ofp_info, "stale") = 0

(***************************************************************************)
(* The cached CDM record: when a completed fetch replaces it.              *)
(***************************************************************************)
\* a poll sees a CDM fetch complete and ends it
CdmFetchEnds == cdm_download_active /\ ~cdm_download_active'

CdmCompared == {"status", "tobt", "tsat", "runway", "sid"}

\* the cached record and the record in the slot agree on every compared field
CdmSameData == cdm_info # NULL /\ \A f \in CdmCompared : cdm_info[f] = cdm_info_new[f]

CdmDataFields == {"tobt", "tsat", "runway", "sid"}

\* C11: last-known-good CDM data survives a failed refresh.  When a CDM
\* fetch completes with a failure while the record of a successful fetch is
\* cached, tobt, tsat, runway and sid read through the CDM accessor are
\* afterwards what they were before.
C11_CdmGoodDataKept ==
    [][(/\ CdmFetchEnds
        /\ cdm_info # NULL /\ cdm_info.status = kSuccess
        /\ cdm_info_new.status # kSuccess)
          => \A f \in CdmDataFields :
                CdmReadField(cdm_info', f) = CdmReadField(cdm_info, f)]_vars

\* a failed refresh has replaced the record of a successful fetch: sbh/cdm/tobt
\* reads the empty string
C11_Witness ==
    /\ last.op = "FlightLoopCb" /\ last.cdm = "published"
    /\ cdm_info # NULL /\ cdm_info.seqno = 2 /\ cdm_info.status # kSuccess
    /\ CdmReadField(cdm_info, "tobt") = WholeField("")

\* C12: when a fetch completes with a failure, the status accessor of its
\* kind (sbh/status, sbh/cdm/status) afterwards returns the failure status
\* of that fetch.
C12_FailureStatusReadable ==
    [][/\ (OfpFetchEnds /\ ofp_info_new.status # kSuccess)
          => OfpReadField(ofp_info', "status") = WholeField(ofp_info_new.status)
       /\ (CdmFetchEnds /\ cdm_info_new.status # kSuccess)
          => CdmReadField(cdm_info', "status") = WholeField(cdm_info_new.status)]_vars

\* a poll has published the record of a failed OFP fetch and sbh/status
\* returns nothing
C12_Witness ==
    /\ last.ofp = "failure" /\ ofp_info # NULL /\ ofp_info.status # kSuccess
    /\ OfpReadField(ofp_info, "status").n = 0

(***************************************************************************)
(* Shutdown: the loop of XPluginStop.                                      *)
(***************************************************************************)
\* XPluginStop has left its loop and returned
StopReturned == pstate = "stopped" /\ last.op = "XPluginStop" /\ last.ofp # "threw"

C14_StopReturns ==
    /\ (pstate = "stopping") ~> StopReturned
    /\ [][(pstate = "stopping" \/ pstate' = "stopping")
            => /\ Len(ofp_tasks') <= Len(ofp_tasks)
               /\ Len(cdm_tasks') <= Len(cdm_tasks)]_vars

\* XPluginStop was left by the exception of future::get()
C14_Witness == last.op = "XPluginStop" /\ last.ofp = "threw"

(***************************************************************************)
(* Collection of a completed fetch.                                        *)
(***************************************************************************)
\* a step of the driving thread that polls: a flight loop callback or a pass
\* of the loop of XPluginStop
PollStep == ticks' # ticks \/ XPluginStop

\* C15: a poll that finds the fetch of its kind in flight and its task
\* completed clears the in-flight flag and in the same call publishes the
\* record of the task (OFP) or compares it and publishes or drops it (CDM),
\* so a flight loop that keeps ticking collects every fetch whose task ends;
\* and the flag is cleared by no other step.
C15_CollectedByPoll ==
    /\ [](\A dt \in TickSteps \cup {0} :
            /\ (ofp_download_active /\ ofp_download_future # "pending") =>
                  LET o == OfpCheckAsyncDownload(now + dt)
                  IN  /\ ~o.ofp_download_active /\ ~o.threw
                      /\ o.ofp_info = OfpActivate(ofp_info_new)
            /\ (cdm_download_active /\ cdm_download_future # "pending") =>
                  LET c == CdmCheckAsyncDownload(now + dt, cdm_next_poll_ts)
                  IN  /\ ~c.cdm_download_active
                      /\ IF CdmSameData THEN c.cdm_info = cdm_info
                         ELSE c.cdm_info = [cdm_info_new EXCEPT !.seqno = cdm_seqno + 1])
    /\ [][/\ OfpFetchEnds =>
                (/\ PollStep /\ ofp_download_future # "pending"
                 /\ ofp_info' = OfpActivate(ofp_info_new))
          /\ CdmFetchEnds =>
                (/\ PollStep /\ cdm_download_future # "pending"
                 /\ IF CdmSameData THEN cdm_info' = cdm_info
                    ELSE cdm_info' = [cdm_info_new EXCEPT !.seqno = cdm_seqno + 1])]_vars

\* a flight loop callback has cleared the flag of the first OFP fetch and
\* published nothing
C15_Witness ==
    /\ last.op = "FlightLoopCb" /\ last.ofp = "threw"
    /\ ~ofp_download_active /\ ofp_info = NULL

(***************************************************************************)
(* What a background task hands to the driving thread.                     *)
(***************************************************************************)
\* C16: a background fetch yields a record and never an exception.  Whatever
\* the upstream reply, the future of a completed task holds a value and the
\* slot a record, and no poll of the driving thread is left by an exception
\* of future::get().
C16_TaskNeverThrows ==
    /\ ofp_download_future # "exception" /\ cdm_download_future # "exception"
    /\ ofp_download_future = "ready" => ofp_info_new # NULL
    /\ cdm_download_future = "ready" => cdm_info_new # NULL
    /\ last.ofp # "threw"

\* an OFP task has ended with an exception in its future, the failure record
\* it made still in the slot
C16_Witness ==
    /\ ofp_download_future = "exception" /\ ofp_tasks = <<>>
    /\ ofp_info_new # NULL /\ ofp_info_new.status = "Invalid JSON data"

(***************************************************************************)
(* The server directory: order of resolution, dead servers, the number of  *)
(* roster requests, the memo of the last resolution.                       *)
(***************************************************************************)
\* server i has loaded its roster and the roster has the code
Serves(i, icao) == servers[i].retrieved_ /\ icao \in DOMAIN servers[i].airports_

\* roster requests to server i that did not load its roster
FailedLoads(i) == roster_calls[i] - (IF servers[i].retrieved_ THEN 1 ELSE 0)

\* C17: resolution order.  After every call of FindUrl, whatever calls and
\* roster loads came before: when a server has the code in its loaded
\* roster, the call has returned the feed and protocol that the first such
\* server in configuration order has for it.
C17_ResolutionOrder ==
    resolved.done =>
        \A i \in DOMAIN servers :
            (Serves(i, resolved.icao) /\ \A j \in 1..(i - 1) : ~Serves(j, resolved.icao))
                => /\ resolved.url = servers[i].airports_[resolved.icao].url
                   /\ resolved.proto = servers[i].airports_[resolved.icao].proto

\* FindUrl has returned the feed of the second server for a code the first
\* server has in its loaded roster
C17_Witness ==
    /\ resolved.done /\ resolved.icao = "LEBL" /\ resolved.url = ScandUrl
    /\ Serves(1, "LEBL") /\ servers[1].airports_["LEBL"].url = LeblFeed

\* C18: a server whose roster load has failed kMaxRetries times in a row is
\* dead; a dead server stays dead, its retry counter never grows, and no
\* resolution sends it a roster request.
C18_DeadAfterRetries ==
    /\ [](\A i \in DOMAIN servers :
            FailedLoads(i) >= kMaxRetries => is_dead(servers[i]))
    /\ [][\A i \in DOMAIN servers :
            /\ servers'[i].retries_left_ <= servers[i].retries_left_
            /\ is_dead(servers[i])
                  => (is_dead(servers'[i]) /\ roster_calls'[i] = roster_calls[i])]_vars

\* the roster load of the first server has failed kMaxRetries times, its
\* retry counter is where it started and the server is not dead
C18_Witness ==
    /\ FailedLoads(1) = kMaxRetries /\ ~servers[1].retrieved_
    /\ servers[1].retries_left_ = kMaxRetries /\ ~is_dead(servers[1])

\* C19: roster loading is bounded per server.  A server gets at most
\* kMaxRetries roster requests that fail, however they fail, and none once
\* its roster is loaded (so at most one that succeeds) or once it is dead.
C19_RosterLoadsBounded ==
    /\ [](\A i \in DOMAIN servers : FailedLoads(i) <= kMaxRetries)
    /\ [][\A i \in DOMAIN servers :
            (servers[i].retrieved_ \/ is_dead(servers[i]))
                => roster_calls'[i] = roster_calls[i]]_vars

\* a server has been sent more than kMaxRetries roster requests, none of
\* which loaded its roster, and is still asked
C19_Witness ==
    \E i \in DOMAIN servers :
        /\ FailedLoads(i) > kMaxRetries
        /\ ~servers[i].retrieved_ /\ ~is_dead(servers[i])

HasUnknownTag(file) ==
    /\ file.exists /\ file.marker /\ file.wf
    /\ AtOk(file.doc, "servers") /\ is_array(At(file.doc, "servers"))
    /\ \E i \in DOMAIN At(file.doc, "servers").a :
          LET s == At(file.doc, "servers").a[i]
          IN  StrAtOk(s, "protocol") /\ ProtocolOf(At(s, "protocol").v) = kProtoInvalid

\* C22: initialization is all-or-nothing.  When XPluginStart has called
\* CdmInit for a file whose server list holds an entry with an unknown
\* protocol tag, that call has returned false and has registered no server:
\* the server list is after the call what it was before it.
C22_AllOrNothing ==
    last.op = "XPluginStart"
        => /\ HasUnknownTag(last.user)
                => ~last.user_ret /\ last.user_servers = <<>>
           /\ (last.dflt_read /\ HasUnknownTag(last.dflt))
                => ~last.dflt_ret /\ servers = last.user_servers

\* the failed call for cdm_cfg.json has left a server in the list, and the
\* call for the default file has added its own after it
C22_Witness ==
    /\ last.op = "XPluginStart" /\ HasUnknownTag(last.user) /\ ~last.user_ret
    /\ last.dflt_ret /\ Len(servers) = 3
    /\ servers[1].name_ = "Spain" /\ servers[2].name_ = "Spain"

\* the enabled entries of a file CdmInit accepts, as servers, in file order
EnabledServers(file) ==
    LET en == SelectSeq(At(file.doc, "servers").a, LAMBDA s : At(s, "enabled").b)
    IN  [i \in 1..Len(en) |->
            Server(At(en[i], "name").v, At(en[i], "url").v,
                   ProtocolOf(At(en[i], "protocol").v))]

\* C23: after a successful CdmInit the registered server list is the list of
\* the enabled entries of the file it read, in the order of the file.
C23_EnabledInOrder ==
    (last.op = "XPluginStart" /\ last.ret = 1)
        => servers = EnabledServers(IF last.user_ret THEN last.user ELSE last.dflt)

\* the list read from a file whose first entry is disabled and whose second is enabled
C23_Witness ==
    /\ last.op = "XPluginStart" /\ last.user_ret
    /\ last.user = CfgFileOf(<<CfgEntry("Germany", FALSE, "vacdm_v1", GermanyUrl),
                               CfgEntry("Scandinavia", TRUE, "vacdm_v1", ScandUrl)>>)
    /\ servers = <<Server("Scandinavia", ScandUrl, kProtoVacdmV1)>>

\* C24: configuration precedence and fail-fast.  If cdm_cfg.json loads, the
\* default file is not read and the plugin starts; if it does not load, the
\* default file is read, and if that loads the plugin starts with the enabled
\* servers of the default file at the end of its list; if neither loads,
\* XPluginStart returns 0, and from then on no task of either kind exists and
\* neither fetch is active.
C24_ConfigPrecedence ==
    /\ last.op = "XPluginStart"
         => LET user_ok == CdmInit(last.user, <<>>).ret
                dflt_ok == CdmInit(last.dflt, <<>>).ret
            IN  /\ user_ok => (~last.dflt_read /\ last.ret = 1 /\ pstate = "running")
                /\ ~user_ok => last.dflt_read
                /\ (~user_ok /\ dflt_ok)
                     => /\ last.ret = 1 /\ pstate = "running"
                        /\ LET d == EnabledServers(last.dflt)
                           IN  /\ Len(servers) >= Len(d)
                               /\ SubSeq(servers, Len(servers) - Len(d) + 1,
                                         Len(servers)) = d
                /\ (~user_ok /\ ~dflt_ok) => (last.ret = 0 /\ pstate = "disabled")
    /\ pstate = "disabled"
         => /\ ofp_tasks = <<>> /\ cdm_tasks = <<>>
            /\ ~ofp_download_active /\ ~cdm_download_active
            /\ ofp_download_future = "invalid" /\ cdm_download_future = "invalid"
            /\ ofp_attempt = "none" /\ cdm_seqno = 0

\* neither file has loaded: one lacks the marker, the other lists a protocol
\* CdmInit does not know
C24_Witness ==
    /\ pstate = "disabled" /\ last.op = "XPluginStart" /\ last.ret = 0
    /\ last.user = NoMarker /\ last.dflt_read /\ HasUnknownTag(last.dflt)

\* offsets and counts of the copy requests tried while there is no record
NoRecordOfs == {0, 1}
NoRecordCounts == {1, 64}

\* C25: before the first fetch of a kind has been collected, every string
\* accessor of that kind returns 0 and copies nothing, for a length query and
\* for a copy request, and the integer accessors of sequence and stale
\* return 0.  (An accessor of the model has no value on a missing record, as
\* the code has none when it dereferences a null pointer.)
C25_NoDataBeforeFirstFetch ==
    /\ ofp_attempt = "none"
         => /\ \A f \in OfpStrFields :
                  /\ OfpDataAcc(ofp_info, f, FALSE, 0, 0) = NoData(0)
                  /\ \A ofs \in NoRecordOfs, n \in NoRecordCounts :
                        OfpDataAcc(ofp_info, f, TRUE, ofs, n) = NoData(0)
            /\ OfpIntAcc(ofp_info, "seqno") = 0
            /\ OfpIntAcc(ofp_info, "stale") = 0
    /\ cdm_seqno = 0
         => /\ \A f \in CdmDataFields \cup {"url", "status"} :
                  /\ CdmDataAcc(cdm_info, f, FALSE, 0, 0) = NoData(0)
                  /\ \A ofs \in NoRecordOfs, n \in NoRecordCounts :
                        CdmDataAcc(cdm_info, f, TRUE, ofs, n) = NoData(0)
            /\ CdmIntAcc(cdm_info, "seqno") = 0

\* the first OFP fetch has finished and waits in the slot, not yet collected;
\* no CDM fetch has run; a length query of either kind answers 0
C25_Witness ==
    /\ ofp_attempt = "none" /\ ofp_info_new # NULL /\ ofp_download_active
    /\ cdm_seqno = 0
    /\ OfpDataAcc(ofp_info, "status", FALSE, 0, 0).n = 0
    /\ CdmDataAcc(cdm_info, "tobt", FALSE, 0, 0).n = 0

\* C26: two-phase field read.  For a call of the string accessor on a record
\* whose field has length L: a length query returns L+1 and copies nothing; a
\* copy request with n > 0 and 0 <= ofs < L+1 returns m = min(n, L+1-ofs) and
\* copies exactly the m bytes ofs .. ofs+m-1 of the field and its terminating
\* zero; every other copy request returns 0 and copies nothing; a copy with
\* ofs 0 and n = L+1 yields the whole field and the terminating zero.
C26_TwoPhaseRead ==
    (last.op = "OfpDataAcc" /\ ofp_info # NULL /\ ofp_info.seqno # 0)
        => LET data == ofp_info[last.field]
               L == Len(data)
               m == IF last.n < L + 1 - last.ofs THEN last.n ELSE L + 1 - last.ofs
               copied == Len(last.res.values) + (IF last.res.nul THEN 1 ELSE 0)
           IN  /\ ~last.values => last.res = NoData(L + 1)
               /\ (last.values /\ last.n > 0 /\ 0 <= last.ofs /\ last.ofs < L + 1)
                    => /\ last.res.n = m /\ copied = m
                       /\ \A k \in 1..Len(last.res.values) :
                             SubSeq(last.res.values, k, k)
                                 = SubSeq(data, last.ofs + k, last.ofs + k)
                       /\ last.res.nul <=> last.ofs + m = L + 1
               /\ (last.values /\ ~(last.n > 0 /\ 0 <= last.ofs /\ last.ofs < L + 1))
                    => last.res = NoData(0)
               /\ (last.values /\ last.ofs = 0 /\ last.n = L + 1)
                    => last.res = WholeField(data)

\* a copy of 8 bytes asked from offset 4 of the status "Success" has returned the
\* 3 characters "ess" and the terminating zero
C26_Witness ==
    /\ last.op = "OfpDataAcc" /\ ofp_info # NULL /\ ofp_info.seqno # 0
    /\ last.field = "status" /\ ofp_info.status = kSuccess
    /\ last.values /\ last.ofs = 4 /\ last.n = 8
    /\ last.res = [n |-> 4, values |-> "ess", nul |-> TRUE]

(***************************************************************************)
(* The OFP parser: upstream status, mandatory keys, the remark.            *)
(***************************************************************************)
\* the reply is JSON whose fetch.status is a string other than "Success"
HasUpstreamError(reply) ==
    /\ reply.ok /\ reply.wf
    /\ AtOk(reply.doc, "fetch") /\ StrAtOk(At(reply.doc, "fetch"), "status")
    /\ At(At(reply.doc, "fetch"), "status").v # kSuccess

\* C27: if fetch.status of the payload is present and is not "Success",
\* OfpGetParse returns (no exception) a record whose status is the upstream
\* string, with stale set, and every other field as make_unique left it:
\* nothing else of the payload has been read, present or damaged.
C27_UpstreamStatusStops ==
    [][\A reply \in ParseReplies :
          (HasUpstreamError(reply) /\ OfpTaskFinish(reply))
              => /\ ofp_info_new'
                      = [NewOfpInfo EXCEPT
                            !.status = At(At(reply.doc, "fetch"), "status").v,
                            !.stale = 1]
                 /\ ofp_download_future' = "ready"
                 /\ seqno' = seqno]_vars

\* the task that got the expired flight plan, complete in every other
\* section, has left the record with that status and nothing else
C27_Witness ==
    /\ ofp_download_future = "ready" /\ ofp_info_new # NULL
    /\ ofp_info_new.status = "Error: Flight plan expired"
    /\ ofp_info_new.stale = 1 /\ ofp_info_new.origin = ""

\* a mandatory key of the document is absent or holds no string
\* (general.dx_rmk: no string and no array)
KeyViolation(doc) ==
    \/ ~(AtOk(doc, "fetch") /\ StrAtOk(At(doc, "fetch"), "status"))
    \/ \E i \in DOMAIN OfpSteps :
          LET sec == OfpSteps[i][1]
              key == OfpSteps[i][2]
          IN  \/ ~AtOk(doc, sec)
              \/ ~AtOk(At(doc, sec), key)
              \/ /\ ~is_string(At(At(doc, sec), key))
                 /\ ~(key = "dx_rmk" /\ is_array(At(At(doc, sec), key)))

\* C28: strict JSON parsing.  Whenever the payload is not well-formed JSON,
\* or a mandatory key is absent or of a mismatching type, OfpGetParse yields
\* a failure record: it returns, the record's status is not "Success", stale
\* is set and the sequence is not incremented.
C28_StrictParsing ==
    [][\A reply \in ParseReplies :
          (/\ reply.ok
           /\ ~reply.wf \/ KeyViolation(reply.doc)
           /\ OfpTaskFinish(reply))
              => /\ ofp_download_future' = "ready"
                 /\ ofp_info_new'.status # kSuccess
                 /\ ofp_info_new'.stale = 1
                 /\ seqno' = seqno /\ ofp_info_new'.seqno = 0]_vars

\* a document whose origin.plan_rwy is null has given a numbered Success
\* record with an empty runway
C28_Witness ==
    /\ ofp_download_future = "ready" /\ ofp_info_new # NULL
    /\ ofp_info_new.status = kSuccess /\ ofp_info_new.stale = 0
    /\ ofp_info_new.seqno > 0 /\ ofp_info_new.origin_rwy = ""

\* the strings of a joined with single blanks
RECURSIVE JoinBlank(_, _)
JoinBlank(a, i) ==
    IF i > Len(a) THEN ""
    ELSE IF i = Len(a) THEN a[i].v
    ELSE a[i].v \o " " \o JoinBlank(a, i + 1)

\* C29: remark normalization.  After a parse of a complete document, the
\* remark is the elements of dx_rmk in order joined with single blanks when
\* dx_rmk is an array of strings, dx_rmk itself when it is a string, and the
\* empty string for every other value.
C29_RemarkJoined ==
    [][\A v \in RmkValues :
          OfpTaskFinish(HttpJson(OfpWithKey("general", "dx_rmk", v)))
              => ofp_info_new'.dx_rmk
                    = IF is_string(v) THEN v.v
                      ELSE IF is_array(v) /\ \A i \in DOMAIN v.a : is_string(v.a[i])
                      THEN JoinBlank(v.a, 1)
                      ELSE ""]_vars

\* the three remarks of an array, joined
C29_Witness ==
    /\ ofp_download_future = "ready" /\ ofp_info_new # NULL
    /\ ofp_info_new.status = kSuccess
    /\ ofp_info_new.dx_rmk = "RMK A RMK B RMK C"

(***************************************************************************)
(* The times of a vACDM reply.                                             *)
(***************************************************************************)
\* hhmm is what the claim gives for the timestamp time: nothing for the
\* sentinel and for fewer than 16 characters; otherwise four characters, the
\* characters 11, 12, 14 and 15 of time (counted from 0), all within time
IsHHMMOf(hhmm, time) ==
    IF time = "1969-12-31T23:59:59.999Z" \/ Len(time) < 16
    THEN hhmm = ""
    ELSE /\ Len(hhmm) = 4
         /\ 16 <= Len(time)
         /\ SubSeq(hhmm, 1, 1) = SubSeq(time, 12, 12)
         /\ SubSeq(hhmm, 2, 2) = SubSeq(time, 13, 13)
         /\ SubSeq(hhmm, 3, 3) = SubSeq(time, 15, 15)
         /\ SubSeq(hhmm, 4, 4) = SubSeq(time, 16, 16)

\* C30: ExtractHHMM returns the empty string for the epoch sentinel and for
\* every input shorter than 16 characters, and for every other input the
\* four characters at positions 11-12 and 14-15 of the input.  Checked on
\* tobt and tsat of the record a CDM task makes of a vACDM reply.
C30_ExtractHHMM ==
    [][\A tobt \in Timestamps, tsat \in Timestamps :
          CdmTaskFinish(VacdmFlight(tobt, tsat, "22R", "SENIA4Q"))
              => /\ IsHHMMOf(cdm_info_new'.tobt, tobt)
                 /\ IsHHMMOf(cdm_info_new'.tsat, tsat)]_vars

\* a tobt of exactly 16 characters has given its hour and minute, the
\* sentinel in tsat nothing
C30_Witness ==
    /\ cdm_download_future = "ready" /\ cdm_info_new # NULL
    /\ cdm_info_new.status = kSuccess
    /\ cdm_info_new.tobt = "0946" /\ cdm_info_new.tsat = ""

(***************************************************************************)
(* The pseudo-XML parser.                                                  *)
(***************************************************************************)
\* the offsets of the text of element tag whose start and end markers lie
\* inside lo .. hi of xml
ElementsIn(xml, lo, hi, tag) ==
    LET stag == "<" \o tag \o ">"
        etag == "</" \o tag \o ">"
    IN  {se \in (lo..hi) \X (lo..hi) :
            /\ se[1] <= se[2]
            /\ se[1] - Len(stag) >= lo /\ se[2] + Len(etag) <= hi
            /\ SubSeq(xml, se[1] - Len(stag) + 1, se[1]) = stag
            /\ SubSeq(xml, se[2] + 1, se[2] + Len(etag)) = etag}

\* C31: extraction is bounded by the outer tag.  After ofp_get_parse on a
\* document, for every inner tag of every section: a field that holds text
\* holds the text between a start and an end marker of its tag that lie
\* inside the range of the section's outer tag, and the field is at its
\* default when the outer tag is missing or the inner tag is missing inside
\* that range.  The parse returns 1 in all these cases.
C31_BoundedByOuterTag ==
    (last.op = "ofp_get_parse" /\ last.reply.ok)
        => /\ last.res = 1
           /\ \A k \in DOMAIN LegacySections :
                 \A i \in DOMAIN LegacySections[k][2] :
                    LET xml == last.reply.body
                        outer == ElementsIn(xml, 0, Len(xml), LegacySections[k][1])
                        field == last.info[LegacySections[k][2][i][2]]
                        inside == UNION {ElementsIn(xml, r[1], r[2],
                                                    LegacySections[k][2][i][1]) :
                                            r \in outer}
                    IN  /\ field # ""
                             => \E se \in inside : field = SubSeq(xml, se[1] + 1, se[2])
                        /\ inside = {} => field = ""

\* the origin section has no plan_rwy, the destination section has one: the
\* runway of the destination is in origin_rwy
C31_Witness ==
    /\ last.op = "ofp_get_parse" /\ last.reply.ok /\ last.res = 1
    /\ last.info.origin = "LEBL" /\ last.info.destination = "EDDF"
    /\ last.info.origin_rwy = "25C" /\ last.info.destination_rwy = "25C"

(***************************************************************************)
(* The two kinds of fetch side by side.                                    *)
(***************************************************************************)
\* a step that starts a fetch of the kind
OfpFetchStarted == Len(ofp_tasks') = Len(ofp_tasks) + 1 /\ ofp_download_active'
CdmFetchStarted == Len(cdm_tasks') = Len(cdm_tasks) + 1 /\ cdm_download_active'

\* the inputs of a flight loop callback
LoopInputs == TickSteps \X BOOLEAN \X BOOLEAN \X Callsigns \X BOOLEAN

\* the flight loop callback would start a CDM fetch if CdmPollEnabled were
\* asked with no OFP fetch in flight
CdmStartsButForOfp(dt, gear0, connected, xp_callsign, eng_running) ==
    LET now1 == now + dt
        o == OfpCheckAsyncDownload(now1)
        c == CdmCheckAsyncDownload(now1, o.cdm_next_poll_ts)
        air1 == IF gear0 THEN o.air_time + dt ELSE o.air_time
        e == CdmPollEnabled(FALSE, air1, connected, xp_callsign, eng_running)
    IN  /\ ~o.threw
        /\ now1 > c.cdm_next_poll_ts /\ e.ret
        /\ FetchCdmStarts(c.cdm_download_active)

\* C32 as stated: the start of a fetch of one kind does not depend on a
\* fetch of the other kind being in flight.  A request for an OFP fetch
\* starts one exactly when the pilot id is set and no OFP fetch is in
\* flight, and a flight loop callback that would start a CDM fetch with no
\* OFP fetch in flight starts it with one in flight as well.
C32_Independent ==
    [][/\ (FetchOfp \/ \E i \in BOOLEAN : XPluginReceiveMessage(i))
             => (OfpFetchStarted <=> (pilot_id # "" /\ ~ofp_download_active))
       /\ \A in \in LoopInputs :
             (/\ FlightLoopCb(in[1], in[2], in[3], in[4], in[5])
              /\ CdmStartsButForOfp(in[1], in[2], in[3], in[4], in[5]))
                => CdmFetchStarted]_vars

\* C32: a request for an OFP fetch starts one exactly when the pilot id is
\* set and no OFP fetch is in flight, whatever the CDM side does; a CDM
\* fetch is started by a flight loop callback only, and only by one that
\* leaves no OFP fetch in flight.
C32_OfpBlocksCdm ==
    [][/\ (FetchOfp \/ \E i \in BOOLEAN : XPluginReceiveMessage(i))
             => (OfpFetchStarted <=> (pilot_id # "" /\ ~ofp_download_active))
       /\ CdmFetchStarted => (ticks' = ticks + 1 /\ ~ofp_download_active')]_vars

\* an OFP fetch was started while a CDM fetch is in flight: both run
C32_Witness ==
    /\ last.op \in {"FetchOfp", "XPluginReceiveMessage"} /\ last.fetch = "started"
    /\ ofp_download_active /\ Len(ofp_tasks) = 1
    /\ cdm_download_active /\ Len(cdm_tasks) = 1

(***************************************************************************)
(* The cadence of the CDM polls.                                           *)
(***************************************************************************)
\* what a flight loop callback with inputs in finds: the two polls, then
\* CdmPollEnabled
LoopSees(in) ==
    LET now1 == now + in[1]
        o == OfpCheckAsyncDownload(now1)
        c == CdmCheckAsyncDownload(now1, o.cdm_next_poll_ts)
        air1 == IF in[2] THEN o.air_time + in[1] ELSE o.air_time
    IN  [now |-> now1, ofp |-> o.ev, cdm |-> c.ev, air_time |-> air1,
         enab |-> CdmPollEnabled(o.ofp_download_active, air1, TRUE, "EWG74A", FALSE).ret]

\* the flight loop callback with inputs in
PollTick(in) == FlightLoopCb(in[1], in[2], TRUE, "EWG74A", FALSE)

\* C33: the refresh cadence.  The callback that collects a CDM fetch at
\* time t starts none and sets the next poll to t + 90 s.  From then on, as
\* long as no successful OFP download is collected, no step starts a CDM
\* fetch or moves the next poll while the time of the callback does not
\* exceed it, and the first callback whose time exceeds it with polling
\* enabled starts a CDM fetch.
C33_Cadence ==
    [][/\ ticks' = ticks => (~CdmFetchStarted /\ cdm_next_poll_ts' = cdm_next_poll_ts)
       /\ \A in \in PollSteps :
             PollTick(in)
                => /\ LoopSees(in).cdm \in {"published", "discarded"}
                        => /\ cdm_next_poll_ts' = LoopSees(in).now + kCdmPollInterval
                           /\ ~CdmFetchStarted
                   /\ (/\ ~cdm_download_active /\ cdm_next_poll_ts # kCdmNoPoll
                       /\ LoopSees(in).ofp # "success")
                        => IF LoopSees(in).now > cdm_next_poll_ts
                           THEN LoopSees(in).enab => CdmFetchStarted
                           ELSE /\ ~CdmFetchStarted
                                /\ cdm_next_poll_ts' = cdm_next_poll_ts]_vars

\* a fetch was collected at 100 s, the callback at 150 s started nothing and
\* the one at 200 s started the next fetch, the only OFP download having
\* failed
C33_Refreshed ==
    /\ last.op = "FlightLoopCb" /\ last.fetch = "started" /\ now = 200
    /\ cdm_info # NULL /\ cdm_info.seqno = 1 /\ cdm_download_active
    /\ ofp_info # NULL /\ ofp_info.status # "Success" /\ ~ofp_download_active

\* a fetch was collected at 100 s and the pilot id cleared: the callback at
\* 200 s took the poll as due and FetchCdm() started nothing
C33_Witness ==
    /\ last.op = "FlightLoopCb" /\ last.fetch = "nopilot" /\ now = 200
    /\ cdm_info # NULL /\ cdm_info.seqno = 1 /\ ~cdm_download_active
    /\ cdm_tasks = <<>> /\ pilot_id = ""

(***************************************************************************)
(* The server directory and its one user.                                  *)
(***************************************************************************)
\* the CDM tasks that have not yet returned from FindUrl
InFindUrl(tasks) == {i \in DOMAIN tasks : tasks[i].pc = "start"}

\* C34: directory access is serialized.  At most one CDM task is at
\* FindUrl at any time, and a step that changes the server list, a roster,
\* a retry counter or the memo is a step of the one CDM task in flight,
\* which is at FindUrl; no handler of the driving thread takes part in it.
C34_DirectorySerialized ==
    [][/\ Cardinality(InFindUrl(cdm_tasks')) <= 1
       /\ <<servers, icao_c, url_c, proto_c, roster_calls>>'
              # <<servers, icao_c, url_c, proto_c, roster_calls>>
             => /\ Len(cdm_tasks) = 1 /\ InFindUrl(cdm_tasks) = {1}
                /\ InFindUrl(cdm_tasks') = {}
                /\ cdm_download_active /\ cdm_download_future = "pending"
                /\ last' = last /\ ticks' = ticks]_vars

\* the one CDM task has loaded a roster, memoized the feed of LEBL and goes
\* on to ask for the flight
C34_Witness ==
    /\ Len(cdm_tasks) = 1 /\ cdm_tasks[1].pc = "fetch"
    /\ resolved.done /\ resolved.icao = "LEBL" /\ icao_c = "LEBL"
    /\ roster_calls # <<0, 0>> /\ cdm_download_active

(***************************************************************************)
(* The poll that follows a new flight plan.                                *)
(***************************************************************************)
\* C35: the immediate poll after a new flight plan.  The callback that
\* collects an OFP download with status Success leaves the origin of the
\* plan in cdm_airport and the next poll due at once, whatever the CDM side
\* does in that callback; and with a Success plan cached and the poll due,
\* the next callback that finds polling enabled starts a CDM fetch.
C35_ImmediatePoll ==
    [][\A in \in PollSteps :
          PollTick(in)
             => /\ LoopSees(in).ofp = "success"
                     => /\ cdm_airport' = ofp_info'.origin
                        /\ cdm_next_poll_ts' = LoopSees(in).now
                /\ (/\ ofp_info # NULL /\ ofp_info.status = "Success"
                    /\ cdm_next_poll_ts <= now
                    /\ LoopSees(in).ofp = "none" /\ LoopSees(in).enab)
                     => CdmFetchStarted]_vars

\* one callback collected the new flight plan and the CDM fetch that was in
\* flight: the next poll is 90 s away
C35_Witness ==
    /\ last.op = "FlightLoopCb" /\ last.ofp = "success"
    /\ last.cdm \in {"published", "discarded"}
    /\ cdm_airport = ofp_info.origin /\ cdm_next_poll_ts = now + kCdmPollInterval
    /\ ~cdm_download_active /\ pilot_id # ""

(***************************************************************************)
(* The time in the air and the end of polling after a flight.              *)
(***************************************************************************)
\* a step that collects an OFP download with status Success
OfpSucceeds == OfpFetchEnds /\ ofp_attempt' = "Success" /\ ofp_info'.status = "Success"

\* C36: the arrival gate.  air_time grows only in a flight loop callback
\* that finds the gear normal force 0, by the time since the last callback,
\* and falls only in a step that collects an OFP download with status
\* Success, which restarts it from 0; no step that leaves air_time above
\* 300 s starts a CDM fetch, so that none is started from the moment
\* air_time exceeds 300 s until an OFP download succeeds.
C36_ArrivalGate ==
    [][/\ air_time' > air_time => \E in \in PollSteps : PollTick(in) /\ in[2]
       /\ air_time' < air_time => OfpSucceeds
       /\ \A in \in PollSteps :
             PollTick(in)
                => air_time' = (IF OfpSucceeds THEN 0 ELSE air_time)
                                  + (IF in[2] THEN in[1] ELSE 0)
       /\ ticks' = ticks => air_time' = air_time
       /\ air_time' > kAirtimeForArrival => ~CdmFetchStarted]_vars

\* after 400 s in the air a callback found the poll due, xPilot connected,
\* the engines off and no fetch in flight, and started no CDM fetch
C36_Witness ==
    /\ last.op = "FlightLoopCb" /\ last.fetch = "none" /\ last.ofp = "none"
    /\ air_time > kAirtimeForArrival
    /\ now > cdm_next_poll_ts /\ xpilot_status_dr /\ xpilot_connected
    /\ ~cdm_download_active /\ ~ofp_download_active /\ pilot_id # ""

(***************************************************************************)
(* The OFP record: status, stale and seqno.                                *)
(***************************************************************************)
\* status == Success, stale == 0 and seqno > 0 hold together or not at all
OfpRecordConsistent(rec) ==
    /\ (rec.status = "Success") <=> (rec.stale = 0)
    /\ (rec.stale = 0) <=> (rec.seqno > 0)

C38_NeverDisarmed == cdm_next_poll_ts = kCdmNoPoll => cdm_download_active

\* without a pilot id the flight loop took the poll as due and FetchCdm()
\* returned early: the sentinel is set and no CDM task exists
C38_Witness ==
    /\ last.op = "FlightLoopCb" /\ last.fetch = "nopilot"
    /\ cdm_next_poll_ts = kCdmNoPoll
    /\ ~cdm_download_active /\ cdm_tasks = <<>> /\ cdm_download_future # "pending"

(***************************************************************************)
(* The server list after the fallback to the default configuration.        *)
(***************************************************************************)
\* C39: the fallback leaves a clean server list.  When XPluginStart has
\* found that cdm_cfg.json does not load and has then loaded the default
\* file, the failed call has left nothing in the list and the registered
\* servers are the enabled entries of the default file, in file order.
C39_CleanFallback ==
    (last.op = "XPluginStart" /\ ~last.user_ret /\ last.dflt_read /\ last.dflt_ret)
        => /\ last.user_servers = <<>>
           /\ servers = EnabledServers(last.dflt)

\* cdm_cfg.json lists Scandinavia and then a protocol CdmInit does not know:
\* the plugin runs with Scandinavia ahead of the two servers of the default
\* file
C39_Witness ==
    /\ last.op = "XPluginStart" /\ ~last.user_ret /\ last.dflt_ret
    /\ pstate = "running" /\ Len(last.user_servers) = 1
    /\ servers = <<Server("Scandinavia", ScandUrl, kProtoVacdmV1)>>
                      \o EnabledServers(last.dflt)
    /\ Len(servers) = 3 /\ servers[2].name_ = "Spain"

(***************************************************************************)
(* The feed URL of the cached CDM record.                                  *)
(***************************************************************************)
\* C40: the url of the cached CDM record is the feed URL of the most
\* recently collected CDM fetch.  The poll that collects a fetch leaves in
\* the cached record the url of the record the task has put in the slot,
\* and no other step changes the url of the cached record.
C40_CachedUrlOfLastFetch ==
    [][/\ CdmFetchEnds => cdm_info'.url = cdm_info_new.url
       /\ ~CdmFetchEnds
             => \/ cdm_info' = NULL /\ cdm_info = NULL
                \/ cdm_info' # NULL /\ cdm_info # NULL /\ cdm_info'.url = cdm_info.url]_vars

\* the fetch for EKCH went to Scandinavia's server and failed like the one
\* for LEBL before it: its record was discarded and the cached record still
\* names the feed of LEBL
C40_Witness ==
    /\ last.op = "FlightLoopCb" /\ last.cdm = "discarded"
    /\ cdm_airport = "EKCH" /\ resolved.icao = "EKCH" /\ resolved.url = ScandUrl
    /\ cdm_info # NULL /\ cdm_info.url = LeblFeed
    /\ cdm_info.status = "Failed to retrieve CDM data"

====
